---- MODULE Spec2Model ----
(***************************************************************************)
(* Time normalisation and timeline aggregation of the alert dashboard      *)
(* (src/pages/Dashboard/uteis/tempo.ts, src/pages/Dashboard/index.tsx,     *)
(* src/pages/Dashboard/componentes/LinhaDoTempoAlertas.tsx).               *)
(*                                                                         *)
(* Units.  An instant is a whole number of ticks since the Unix epoch, one *)
(* tick being MsPorTick milliseconds (half an hour).  Every quantity of    *)
(* the code that is a number of milliseconds is divided by MsPorTick; the  *)
(* arithmetic of the code is linear in these quantities, so the model is   *)
(* the code restricted to instants on the half-hour grid.  A numeric       *)
(* timestamp of an upstream record is kept in units of MsPorTick / 1000,   *)
(* so that an epoch-seconds value k denotes tick k and an epoch-           *)
(* milliseconds value k denotes tick k / 1000.                             *)
(***************************************************************************)
EXTENDS Integers, Sequences, FiniteSets, TLC

VARIABLES
  agora,      \* Date.now(), in ticks
  fusoLocal,  \* UTC offset of the browser's local time zone, in ticks
  headers,    \* PaginaDashboard state: the fetched ApiAlertHeaderRaw list
  alerts,     \* headers.map(adaptarHeaderParaAlerta) (useMemo on headers)
  periodo,    \* LinhaDoTempoAlertas state: "24h" | "7d" | "30d"
  range,      \* LinhaDoTempoAlertas prop: Intervalo {start?, end?}
  timezone,   \* usePrefs().timezone
  dados,      \* result of the last construirTimelineAPartirDeAlertas call
  chamada,    \* locals of that call at its return
  anterior,   \* window of the call before it, when that was a 24h one
  upstream,   \* the alert records the server holds
  intervalos, \* the ranges the page may hand to the chart
  numero,     \* a numeric timestamp of an upstream record, at full width
  saidaParaISO, \* outcome of paraISO(numero)
  saidaAdaptar, \* outcome of adaptarHeaderParaAlerta({ data_evento: numero })
  bruto,      \* a record as the server sends it
  cabecalho,  \* normalizarCabecalho(bruto)
  alerta,     \* adaptarHeaderParaAlerta(cabecalho)
  classes,    \* what the two classifiers returned inside that call
  fase,       \* how far the record has come: "bruto", "normalizado", "adaptado"
  severidadesSelecionadas,  \* PaginaDashboard state selSeveridades
  grafico,    \* LinhaDoTempoAlertas: the value of the useMemo "dados"
  filters,    \* PaginaDashboard state: how many filter objects were applied
  efeitos,    \* the runs of the fetch effect, one per value of filters
  pagHeaders, \* PaginaDashboard state headers, a list of object addresses
  err,        \* PaginaDashboard state err: the run whose error it is, or -1
  loading,    \* PaginaDashboard state loading
  origem,     \* the run whose response was last written to headers, or -1
  heap,       \* the header and alert objects created so far, by address
  trocas,     \* the status changes whose request is in flight
  servidor,   \* the status label the server holds for each alert
  avisos,     \* the alert() dialogs shown, in order
  confirmado, \* per alert, the status of its last successful change
  chamadasHttp,  \* listarCabecalhosAlertas: the requests made, in order
  respostasHttp, \* listarCabecalhosAlertas: how each request ended
  faseListar,    \* listarCabecalhosAlertas: where the call stands
  saidaListar,   \* listarCabecalhosAlertas: how its promise settled
  prefs,          \* PrefsProvider state {darkMode, timezone}
  armazenado,     \* localStorage["prefs.v1"], parsed
  tema,           \* <html data-theme>
  efeitoPendente, \* the effects of PrefsProvider wait to run
  ultimaOp,       \* the last call made on PrefsProvider
  formatado,      \* the last formatarDataLocal call: the zone it used
  idToken,        \* localStorage["idToken"]
  accessToken,    \* localStorage["accessToken"]
  refreshToken,   \* localStorage["refreshToken"]
  relogio,        \* Date.now() of the authentication module, in ms
  usuarioAtual,   \* userPool.getCurrentUser() is not null
  operacoes,      \* the logins and refreshes whose callback is awaited
  iniciadas,      \* how many logins and refreshes were started
  deslogado,      \* signOut was called and no login has succeeded since
  visita,         \* the last render of a protected route
  jwt,            \* the last getJwt() call
  modalAberto,    \* PaginaDashboard state modalFeedbackAberto
  alertaModal,    \* PaginaDashboard state alertaParaFeedback (an id, 0 = null)
  textoFeedback,  \* ModalFeedback state feedback: whether its trim() is not empty
  isEnviando,     \* ModalFeedback state isEnviando
  erroModal,      \* ModalFeedback state erro is not null
  envios,         \* the feedback submissions in flight
  iniciados,      \* how many submissions were started
  enviados,       \* the alerts with localStorage["alert-feedback-<id>"] = "1"
  marcados,       \* the alerts whose header has feedback_enviado: true
  ultimaAcao      \* the last step of the feedback modal

\* the variables of the timeline, and those of the numeric normaliser
varsLinha == <<agora, fusoLocal, headers, alerts, periodo, range, timezone,
               dados, chamada, anterior, upstream, intervalos>>
varsNumero == <<numero, saidaParaISO, saidaAdaptar>>
varsAdaptador == <<bruto, cabecalho, alerta, classes, fase>>

varsSelecao == <<severidadesSelecionadas, grafico>>

varsPagina == <<filters, efeitos, pagHeaders, err, loading, origem, heap,
                trocas, servidor, avisos, confirmado>>

varsListar == <<chamadasHttp, respostasHttp, faseListar, saidaListar>>

\* the variables of the parts modelled after the page
varsPrefs == <<prefs, armazenado, tema, efeitoPendente, ultimaOp, formatado>>

varsAuth == <<idToken, accessToken, refreshToken, relogio, usuarioAtual,
              operacoes, iniciadas, deslogado, visita, jwt>>

varsModal == <<modalAberto, alertaModal, textoFeedback, isEnviando, erroModal,
               envios, iniciados, enviados, marcados, ultimaAcao>>

varsDemais == <<varsListar, varsPrefs, varsAuth, varsModal>>

vars == <<varsLinha, varsNumero, varsAdaptador, varsSelecao, varsPagina,
          varsDemais>>

\* a call that has not been made
Pendente ==
  [feito |-> FALSE, lancou |-> FALSE, erro |-> "",
   valor |-> [cls |-> "nenhum", hi |-> 0, lo |-> 0]]

\* the numeric normaliser at rest: what the timeline's steps leave alone
NumeroParado ==
  /\ numero = [cls |-> "nenhum", hi |-> 0, lo |-> 0]
  /\ saidaParaISO = Pendente
  /\ saidaAdaptar = Pendente

\* no severity chip is ever clicked: the chart shows what the aggregator
\* returned, which is the variable dados
SelecaoParada ==
  /\ severidadesSelecionadas = <<>>
  /\ grafico = <<>>

\* the page's fetches and status changes at rest
PaginaParada ==
  /\ filters = 0
  /\ efeitos = <<>>
  /\ pagHeaders = <<>>
  /\ err = -1
  /\ loading = FALSE
  /\ origem = -1
  /\ heap = <<>>
  /\ trocas = {}
  /\ servidor = <<>>
  /\ avisos = <<>>
  /\ confirmado = <<>>

\* the adapter at rest
AdaptadorParado ==
  /\ bruto = <<>>
  /\ cabecalho = <<>>
  /\ alerta = <<>>
  /\ classes = <<>>
  /\ fase = "parado"

\* a promise that has not settled
NaoResolvida == [estado |-> "pendente", valor |-> <<>>, erro |-> ""]

\* listarCabecalhosAlertas not called
ListarParado ==
  /\ chamadasHttp = <<>>
  /\ respostasHttp = <<>>
  /\ faseListar = "parado"
  /\ saidaListar = NaoResolvida

\* the parts modelled after the page, at rest
\* const initial = saved || { darkMode: false, timezone: "America/Sao_Paulo" }
PrefsPadrao == [darkMode |-> FALSE, timezone |-> "America/Sao_Paulo"]

\* no item under the key prefs.v1
NadaArmazenado == [presente |-> FALSE, darkMode |-> FALSE, timezone |-> ""]

\* formatarDataLocal not called
NaoFormatado ==
  [feito |-> FALSE, fuso |-> "", contexto |-> "", efeitosRodaram |-> FALSE]

\* PrefsProvider not mounted
PrefsParado ==
  /\ prefs = PrefsPadrao
  /\ armazenado = NadaArmazenado
  /\ tema = ""
  /\ efeitoPendente = FALSE
  /\ ultimaOp = "parado"
  /\ formatado = NaoFormatado

\* localStorage.getItem(key) === null
SemToken ==
  [presente |-> FALSE, parse |-> FALSE, exp |-> [tipo |-> "ausente", v |-> 0]]

\* no protected route rendered, getJwt not called
SemVisita ==
  [feita |-> FALSE, resultado |-> "", token |-> SemToken, relogio |-> 0,
   deslogado |-> FALSE]
SemLeitura == [feita |-> FALSE, valor |-> SemToken, deslogado |-> FALSE]

\* the authentication module at rest
AuthParado ==
  /\ idToken = SemToken
  /\ accessToken = SemToken
  /\ refreshToken = SemToken
  /\ relogio = 0
  /\ usuarioAtual = FALSE
  /\ operacoes = {}
  /\ iniciadas = 0
  /\ deslogado = FALSE
  /\ visita = SemVisita
  /\ jwt = SemLeitura

\* the feedback modal closed and never used
ModalParado ==
  /\ modalAberto = FALSE
  /\ alertaModal = 0
  /\ textoFeedback = FALSE
  /\ isEnviando = FALSE
  /\ erroModal = FALSE
  /\ envios = {}
  /\ iniciados = 0
  /\ enviados = {}
  /\ marcados = {}
  /\ ultimaAcao = "nenhuma"

DemaisParados ==
  /\ ListarParado
  /\ PrefsParado
  /\ AuthParado
  /\ ModalParado

-----------------------------------------------------------------------------
(* Bounds of the model *)

MaxAlertas == 2   \* longest list a fetch returns
MaxTicks == 3     \* how far the clock advances past Agora0
MaxDesvio == 8    \* how far a numeric timestamp lies from a landmark value
MaxRotulo == 2    \* longest severity label made of arbitrary letters
MaxSeparadores == 1  \* most spaces or underscores put into a status label
MaxFiltros == 2   \* how many times the filters are applied
MaxTrocas == 1    \* how many status changes are requested
MaxOperacoes == 2 \* how many logins and token refreshes are started
MaxEnvios == 2    \* how many feedback submissions are started
MaxMeiosSegundos == 3 \* how many half seconds pass on the authentication clock

-----------------------------------------------------------------------------
(* Time constants *)

MsPorTick == 30 * 60 * 1000
HOUR == 3600000 \div MsPorTick
DAY == 24 * HOUR

\* v < 1e12 in paraISO, for v in units of MsPorTick / 1000 = 1800:
\* k * 1800 < 10^12  <=>  k < 555555556
LimiarMs == 555555556

-----------------------------------------------------------------------------
(* JavaScript numbers: finite values, the infinities, NaN, and null where  *)
(* the code lets a null flow into arithmetic.                              *)

Fin(n) == [cls |-> "fin", v |-> n]
Infinity == [cls |-> "inf", v |-> 0]
NegInfinity == [cls |-> "ninf", v |-> 0]
NaN == [cls |-> "nan", v |-> 0]
Nulo == [cls |-> "null", v |-> 0]

\* ToNumber: null becomes +0 in arithmetic and comparisons
ToNumber(x) == IF x.cls = "null" THEN Fin(0) ELSE x

\* x ?? d
Coalesce(x, d) == IF x.cls = "null" THEN d ELSE x

Neg(a0) ==
  LET a == ToNumber(a0) IN
  CASE a.cls = "fin" -> Fin(0 - a.v)
    [] a.cls = "inf" -> NegInfinity
    [] a.cls = "ninf" -> Infinity
    [] OTHER -> NaN

Soma(a0, b0) ==
  LET a == ToNumber(a0)
      b == ToNumber(b0) IN
  CASE a.cls = "nan" \/ b.cls = "nan" -> NaN
    [] a.cls = "fin" /\ b.cls = "fin" -> Fin(a.v + b.v)
    [] a.cls = "fin" -> b
    [] b.cls = "fin" -> a
    [] a.cls = b.cls -> a
    [] OTHER -> NaN

Sub(a, b) == Soma(a, Neg(b))

\* a < b
Menor(a0, b0) ==
  LET a == ToNumber(a0)
      b == ToNumber(b0) IN
  CASE a.cls = "nan" \/ b.cls = "nan" -> FALSE
    [] a.cls = "fin" /\ b.cls = "fin" -> a.v < b.v
    [] a.cls = "ninf" -> b.cls # "ninf"
    [] b.cls = "inf" -> a.cls # "inf"
    [] OTHER -> FALSE

\* a <= b
MenorIgual(a0, b0) ==
  LET a == ToNumber(a0)
      b == ToNumber(b0) IN
  /\ a.cls # "nan"
  /\ b.cls # "nan"
  /\ ~Menor(b, a)

\* Math.max(a, b), Math.min(a, b)
MathMax2(a0, b0) ==
  LET a == ToNumber(a0)
      b == ToNumber(b0) IN
  IF a.cls = "nan" \/ b.cls = "nan" THEN NaN
  ELSE IF Menor(a, b) THEN b ELSE a

MathMin2(a0, b0) ==
  LET a == ToNumber(a0)
      b == ToNumber(b0) IN
  IF a.cls = "nan" \/ b.cls = "nan" THEN NaN
  ELSE IF Menor(b, a) THEN b ELSE a

\* Math.max(...xs), Math.min(...xs): -Infinity and +Infinity for no argument
RECURSIVE MathMax(_)
MathMax(xs) ==
  IF xs = <<>> THEN NegInfinity ELSE MathMax2(Head(xs), MathMax(Tail(xs)))

RECURSIVE MathMin(_)
MathMin(xs) ==
  IF xs = <<>> THEN Infinity ELSE MathMin2(Head(xs), MathMin(Tail(xs)))

CeilDiv_Floor(a0, d) ==
  LET a == ToNumber(a0) IN
  IF a.cls = "fin" THEN Fin(a.v \div d) ELSE a

\* Math.ceil(a / d) for a finite positive divisor d
CeilDiv(a0, d) ==
  LET a == ToNumber(a0) IN
  IF a.cls = "fin" THEN Fin(0 - ((0 - a.v) \div d)) ELSE a

\* ToLength of Array.from({ length: n }): NaN and negatives give 0.
\* (+Infinity never reaches it: eUtc - sUtc is finite or NaN.)
ToLength(n0) ==
  LET n == ToNumber(n0) IN
  IF n.cls = "fin" /\ n.v > 0 THEN n.v ELSE 0

-----------------------------------------------------------------------------
(* Timestamp values of an upstream record (string | number | undefined).   *)
(* A string is represented by its form and by the calendar moment its      *)
(* fields spell:                                                           *)
(*   isoZ        "2025-08-26T13:07:41Z"  (also what toISOString() yields)  *)
(*   isoSemFuso  "2025-08-26 13:07:41"   no zone designator                *)
(*   brDia13a31  "26/08/2025 13:07"      day above 12                      *)
(*   brDia1a12   "05/08/2025 13:07"      day up to 12; w is the moment the *)
(*                                       fields spell when read month first*)
(*   vazia       ""                                                        *)
(*   invalida    "abc"                                                     *)
(* v is the moment in ticks, as if the fields were UTC fields.             *)

Ausente == [tipo |-> "ausente", v |-> 0, w |-> 0]
Vazia == [tipo |-> "vazia", v |-> 0, w |-> 0]
Invalida == [tipo |-> "invalida", v |-> 0, w |-> 0]
IsoZ(t) == [tipo |-> "isoZ", v |-> t, w |-> 0]
IsoSemFuso(t) == [tipo |-> "isoSemFuso", v |-> t, w |-> 0]
BrDia13a31(t) == [tipo |-> "brDia13a31", v |-> t, w |-> 0]
BrDia1a12(t, u) == [tipo |-> "brDia1a12", v |-> t, w |-> u]
Numero(k) == [tipo |-> "numero", v |-> k, w |-> 0]

\* JavaScript truthiness of a string | undefined
Truthy(s) == s.tipo \notin {"ausente", "vazia"}

\* new Date(ms).toISOString()
toISOString(ms) == IsoZ(ms)

\* const paraISO = (v?: string | number) => ...
paraISO(v) ==
  IF v.tipo = "ausente" THEN Ausente
  ELSE IF v.tipo = "numero"
    THEN LET ms == IF v.v < LimiarMs THEN v.v ELSE v.v \div 1000
         IN toISOString(ms)
    ELSE v

\* new Date(iso).getTime(): ECMAScript reads a date-time with a zone
\* designator in that zone, a date-time without one as local time, and
\* leaves any other form to the engine; the engines read "a/b/yyyy" month
\* first, in local time, and reject a month above 12.
DateGetTime(iso) ==
  CASE iso.tipo = "isoZ" -> Fin(iso.v)
    [] iso.tipo = "isoSemFuso" -> Fin(iso.v - fusoLocal)
    [] iso.tipo = "brDia1a12" -> Fin(iso.w - fusoLocal)
    [] OTHER -> NaN

\* export function parseEmUtc(iso: string): number | null
parseEmUtc(iso) ==
  LET d == DateGetTime(iso) IN
  IF d.cls = "nan" THEN Nulo ELSE d

-----------------------------------------------------------------------------
(* Severity labels are sequences of characters.                            *)

Maiusculas == <<"A", "B", "C", "E", "I", "L", "M", "N", "O", "R", "T", "X",
                "É", "Í", "D", "F", "G", "H", "P", "S", "V", "W">>
Minusculas == <<"a", "b", "c", "e", "i", "l", "m", "n", "o", "r", "t", "x",
                "é", "í", "d", "f", "g", "h", "p", "s", "v", "w">>

toLowerCaseChar(c) ==
  IF \E i \in DOMAIN Maiusculas : Maiusculas[i] = c
    THEN Minusculas[CHOOSE i \in DOMAIN Maiusculas : Maiusculas[i] = c]
    ELSE c

toLowerCase(s) == [i \in DOMAIN s |-> toLowerCaseChar(s[i])]

startsWith_Igual(s, p) == s = p

startsWith(s, p) == Len(s) >= Len(p) /\ SubSeq(s, 1, Len(p)) = p

\* An absent label (undefined) is the value SemRotulo
SemRotulo == <<"undefined">>

\* const mapearSeveridade = (s?: string): Severidade | undefined
mapearSeveridade(s) ==
  IF s = SemRotulo \/ s = <<>> THEN "undefined"
  ELSE LET v == toLowerCase(s) IN
    IF startsWith(v, <<"c", "r">>) THEN "crítica"
    ELSE IF startsWith(v, <<"a", "l">>) THEN "alta"
    ELSE IF startsWith(v, <<"m", "é">>) \/ startsWith(v, <<"m", "e">>)
      THEN "média"
    ELSE IF startsWith(v, <<"b", "a">>) THEN "baixa"
    ELSE "undefined"

\* s.normalize("NFD").replace(/[\u0300-\u036f]/g, ""): a letter with a
\* diacritic becomes the letter
ComAcento == <<"É", "Í", "é", "í">>
SemAcento == <<"E", "I", "e", "i">>

semDiacriticosChar(c) ==
  IF \E i \in DOMAIN ComAcento : ComAcento[i] = c
    THEN SemAcento[CHOOSE i \in DOMAIN ComAcento : ComAcento[i] = c]
    ELSE c

semDiacriticos(s) == [i \in DOMAIN s |-> semDiacriticosChar(s[i])]

\* .replace(/\s|_/g, ""): white space and underscores are dropped
Separadores == {" ", "_"}

semSeparadores_SoSublinhado(s) == SelectSeq(s, LAMBDA c : c # "_")

RECURSIVE semSeparadores(_)
semSeparadores(s) ==
  IF s = <<>> THEN <<>>
  ELSE IF Head(s) \in Separadores THEN semSeparadores(Tail(s))
  ELSE <<Head(s)>> \o semSeparadores(Tail(s))

\* /^(emandamento|inprogress|progress|andamento)$/
GrafiasEmProgresso ==
  {<<"e", "m", "a", "n", "d", "a", "m", "e", "n", "t", "o">>,
   <<"i", "n", "p", "r", "o", "g", "r", "e", "s", "s">>,
   <<"p", "r", "o", "g", "r", "e", "s", "s">>,
   <<"a", "n", "d", "a", "m", "e", "n", "t", "o">>}

\* /^(fechada|closed|resolvida|resolvido)$/
GrafiasFechada ==
  {<<"f", "e", "c", "h", "a", "d", "a">>,
   <<"c", "l", "o", "s", "e", "d">>,
   <<"r", "e", "s", "o", "l", "v", "i", "d", "a">>,
   <<"r", "e", "s", "o", "l", "v", "i", "d", "o">>}

\* /^(aberta|aberto|open|opened|novo|nova)$/
GrafiasAberta ==
  {<<"a", "b", "e", "r", "t", "a">>,
   <<"a", "b", "e", "r", "t", "o">>,
   <<"o", "p", "e", "n">>,
   <<"o", "p", "e", "n", "e", "d">>,
   <<"n", "o", "v", "o">>,
   <<"n", "o", "v", "a">>}

\* const mapearStatus = (s?: string): Status | undefined
mapearStatus(s) ==
  IF s = SemRotulo \/ s = <<>> THEN "undefined"
  ELSE LET v == semSeparadores(toLowerCase(semDiacriticos(s))) IN
    IF v \in GrafiasEmProgresso THEN "em_progresso"
    ELSE IF v \in GrafiasFechada THEN "fechada"
    ELSE IF v \in GrafiasAberta THEN "aberta"
    ELSE "undefined"

\* mapearSeveridade(...) ?? "média"
OuMedia(x) == IF x = "undefined" THEN "média" ELSE x

OuAberta_SemPadrao(x) == x

\* mapearStatus(...) ?? "aberta"
OuAberta(x) == IF x = "undefined" THEN "aberta" ELSE x

\* const statusParaAPI = newStatus === "em_progresso" ? "Em Andamento" : ...
statusParaAPI(st) ==
  IF st = "em_progresso" THEN <<"E", "m", " ", "A", "n", "d", "a", "m", "e", "n", "t", "o">>
  ELSE IF st = "fechada" THEN <<"F", "e", "c", "h", "a", "d", "a">>
  ELSE <<"A", "b", "e", "r", "t", "a">>

\* (h as any).campo: undefined when the record has no such field
Campo(h, f) == IF f \in DOMAIN h THEN h[f] ELSE SemRotulo

\* function adaptarHeaderParaAlerta(h: ApiAlertHeaderRaw): Alerta
\* (the fields the timeline reads, the id and the status)
adaptarHeaderParaAlerta(h) ==
  LET sev == OuMedia(mapearSeveridade(h.severidade))
      dataEvento == IF h.data_evento.tipo # "ausente" THEN h.data_evento
                    ELSE h.created_at
      iso == paraISO(dataEvento)
  IN [id |-> Campo(h, "alerta_id"),
      createdAt |-> IF Truthy(iso) THEN iso ELSE toISOString(agora),
      severity |-> sev,
      status |-> OuAberta(mapearStatus(Campo(h, "status")))]

-----------------------------------------------------------------------------
(* Bucket labels.  toLocaleString / toLocaleDateString render the instant  *)
(* in the given IANA zone; the label is represented by the field rendered: *)
(* the hour of the day, the calendar day (which fixes "dd/mm"), or the day *)
(* of the week.                                                            *)

Fusos == {"UTC", "America/Sao_Paulo"}

Deslocamento(tz) == IF tz = "America/Sao_Paulo" THEN 0 - 3 * HOUR ELSE 0

\* const rotuloHora = (msUtc, timezone) => ... + ":00"
rotuloHora(msUtc, tz) ==
  [fmt |-> "HH:00", v |-> ((msUtc + Deslocamento(tz)) \div HOUR) % 24]

\* toLocaleDateString("pt-BR", { timeZone, day: "2-digit", month: "2-digit" })
rotuloDiaMes(msUtc, tz) ==
  [fmt |-> "dd/mm", v |-> (msUtc + Deslocamento(tz)) \div DAY]

\* toLocaleDateString("pt-BR", { weekday: "short", timeZone });
\* the epoch fell on a Thursday
rotuloSemana(msUtc, tz) ==
  [fmt |-> "weekday", v |-> (((msUtc + Deslocamento(tz)) \div DAY) + 4) % 7]

-----------------------------------------------------------------------------
(* construirTimelineAPartirDeAlertas                                       *)

SemIntervalo == [start |-> Ausente, end |-> Ausente]

rangeAtivo_AmbasAsPontas(r) == Truthy(r.start) /\ Truthy(r.end)

\* range?.start || range?.end
rangeAtivo(r) == Truthy(r.start) \/ Truthy(r.end)

\* a.createdAt resolved, or Date.now() where it does not resolve
InstantesOuAgora(as) ==
  [i \in DOMAIN as |-> Coalesce(parseEmUtc(as[i].createdAt), Fin(agora))]

\* lines 200-203: the endpoint supplied, or else derived from the data
PontaInicial(as, r) ==
  IF Truthy(r.start) THEN parseEmUtc(r.start)
  ELSE MathMin(InstantesOuAgora(as))

PontaFinal(as, r) ==
  IF Truthy(r.end) THEN parseEmUtc(r.end)
  ELSE MathMax(InstantesOuAgora(as))

\* line 207: const eUtc = Math.max(endUtc, startUtc + HOUR)
FimComMinimo(startUtc, endUtc) == MathMax2(endUtc, Soma(startUtc, Fin(HOUR)))

\* line 210: const bucketSize = eUtc - sUtc <= 36 * HOUR ? HOUR : DAY
EscolherBucketSize(span) ==
  IF MenorIgual(span, Fin(36 * HOUR)) THEN HOUR ELSE DAY

NumeroDeBaldes_Piso(span, bucketSize) ==
  MathMax2(Fin(1), CeilDiv_Floor(span, bucketSize))

\* line 211: const n = Math.max(1, Math.ceil((eUtc - sUtc) / bucketSize))
NumeroDeBaldes(span, bucketSize) == MathMax2(Fin(1), CeilDiv(span, bucketSize))

\* MODO 1, lines 200-211: the window, the bucket width and the bucket count.
\* sUtc is kept as the number the later arithmetic reads (a null startUtc
\* is read as 0 everywhere it is used).
JanelaExplicita(as, r) ==
  LET startUtc == PontaInicial(as, r)
      endUtc == PontaFinal(as, r)
      sUtc == ToNumber(startUtc)
      eUtc == FimComMinimo(startUtc, endUtc)
      bucketSize == EscolherBucketSize(Sub(eUtc, sUtc))
      n == NumeroDeBaldes(Sub(eUtc, sUtc), bucketSize)
  IN [startUtc |-> startUtc, endUtc |-> endUtc, sUtc |-> sUtc, eUtc |-> eUtc,
      bucketSize |-> bucketSize, n |-> ToLength(n)]

AlinharFim_Teto(now, bucketSize) ==
  ((now + bucketSize - 1) \div bucketSize) * bucketSize

AlinharFim_SemPiso(now, bucketSize) == now + bucketSize

\* line 243: Math.floor(Date.now() / bucketSize) * bucketSize + bucketSize
AlinharFim(now, bucketSize) == (now \div bucketSize) * bucketSize + bucketSize

\* MODO 2, lines 239-247
JanelaRelativa(period) ==
  LET size == IF period = "24h" THEN 24 * HOUR
              ELSE IF period = "7d" THEN 7 * DAY ELSE 30 * DAY
      bucketSize == IF period = "24h" THEN HOUR ELSE DAY
      endUtc == AlinharFim(agora, bucketSize)
      startUtc == endUtc - size
  IN [startUtc |-> Fin(startUtc), endUtc |-> Fin(endUtc),
      sUtc |-> Fin(startUtc), eUtc |-> Fin(endUtc),
      bucketSize |-> bucketSize, n |-> size \div bucketSize]

\* Array.from({ length: n }, (_, i) => ...): element i + 1 of the sequence
\* is element i of the array
BinsExplicito(j, tz) ==
  [k \in 1..j.n |->
    LET t == j.sUtc.v + (k - 1) * j.bucketSize IN
    [hour |-> IF j.bucketSize = HOUR THEN rotuloHora(t, tz)
              ELSE rotuloDiaMes(t, tz),
     baixa |-> 0, media |-> 0, alta |-> 0, critica |-> 0]]

BinsRelativo(j, period, tz) ==
  [k \in 1..j.n |->
    LET t == j.sUtc.v + (k - 1) * j.bucketSize IN
    [hour |-> IF period = "24h" THEN rotuloHora(t, tz)
              ELSE IF period = "7d" THEN rotuloSemana(t, tz)
              ELSE rotuloDiaMes(t, tz),
     baixa |-> 0, media |-> 0, alta |-> 0, critica |-> 0]]

\* bins[i].<severity>++
Incrementar(bins, i, severity) ==
  [bins EXCEPT ![i + 1] =
    IF severity = "baixa" THEN [@ EXCEPT !.baixa = @ + 1]
    ELSE IF severity = "média" THEN [@ EXCEPT !.media = @ + 1]
    ELSE IF severity = "alta" THEN [@ EXCEPT !.alta = @ + 1]
    ELSE [@ EXCEPT !.critica = @ + 1]]

Min2(a, b) == IF a < b THEN a ELSE b

IndiceExplicito_Teto(bins, t, j) ==
  Min2(Len(bins) - 1, (t.v - j.sUtc.v + j.bucketSize - 1) \div j.bucketSize)

\* the index an alert at instant t is counted at, lines 226 and 262
IndiceExplicito(bins, t, j) ==
  Min2(Len(bins) - 1, (t.v - j.sUtc.v) \div j.bucketSize)

IndiceRelativo(bins, t, j) == (t.v - j.sUtc.v) \div j.bucketSize

ForaDaJanela_FimInclusivo(t, j) ==
  t.cls = "null" \/ Menor(t, j.sUtc) \/ Menor(j.eUtc, t)

\* if (t == null || t < sUtc || t >= eUtc) continue;
ForaDaJanela(t, j) ==
  t.cls = "null" \/ Menor(t, j.sUtc) \/ MenorIgual(j.eUtc, t)

\* for (const a of alerts) { ... }, lines 223-231 and 259-267
RECURSIVE Popular(_, _, _, _)
Popular(bins, as, j, explicito) ==
  IF as = <<>> THEN bins
  ELSE
    LET a == Head(as)
        t == parseEmUtc(a.createdAt)
        i == IF explicito THEN IndiceExplicito(bins, t, j)
             ELSE IndiceRelativo(bins, t, j)
    IN Popular(IF ForaDaJanela(t, j) THEN bins
               ELSE Incrementar(bins, i, a.severity),
               Tail(as), j, explicito)

\* the window a call works on
Janela(as, period, r) ==
  IF rangeAtivo(r) THEN JanelaExplicita(as, r) ELSE JanelaRelativa(period)

construirTimelineAPartirDeAlertas_HoraLocal(as, period, r, tz) ==
  LET j == Janela(as, period, r)
      jl == IF j.sUtc.cls = "fin" /\ j.eUtc.cls = "fin"
              THEN [j EXCEPT !.sUtc = Fin(j.sUtc.v - Deslocamento(tz)),
                             !.eUtc = Fin(j.eUtc.v - Deslocamento(tz))]
              ELSE j
  IN IF rangeAtivo(r)
       THEN Popular(BinsExplicito(j, tz), as, jl, TRUE)
       ELSE Popular(BinsRelativo(j, period, tz), as, jl, FALSE)

construirTimelineAPartirDeAlertas(as, period, r, tz) ==
  IF rangeAtivo(r)
    THEN LET j == JanelaExplicita(as, r)
         IN Popular(BinsExplicito(j, tz), as, j, TRUE)
    ELSE LET j == JanelaRelativa(period)
         IN Popular(BinsRelativo(j, period, tz), as, j, FALSE)

-----------------------------------------------------------------------------
(* Inputs.  The clock starts at 23:00 UTC of a day of 2025, so that MaxTicks*)
(* half hours cross an hour boundary that is also a day boundary.          *)

Agora0 == 56 * 365 * DAY + 23 * HOUR
D0 == Agora0 - 23 * HOUR     \* 00:00 UTC of that day
A == D0 - 2 * DAY            \* start of the explicit ranges

Baixo == <<"B", "a", "i", "x", "o">>
Medio == <<"M", "é", "d", "i", "o">>
Alto == <<"A", "l", "t", "o">>
Critico == <<"C", "r", "í", "t", "i", "c", "o">>
NaoClassificado == <<"N", "/", "A">>

H(d, s) == [data_evento |-> d, created_at |-> Ausente, severidade |-> s]

Intervalo(s, e) == [start |-> s, end |-> e]

Cenarios ==
  { \* relative windows: the edges of the 24h window
    [registros |-> {H(IsoZ(D0), Baixo), H(IsoZ(Agora0 + HOUR), Critico)},
     intervalos |-> {SemIntervalo},
     fusoLocal |-> 0],
    \* relative windows: records without a usable timestamp
    [registros |-> {H(Ausente, Alto), H(Invalida, Medio)},
     intervalos |-> {SemIntervalo},
     fusoLocal |-> 0],
    \* relative windows: data_evento left out or empty, created_at present
    [registros |-> {[data_evento |-> Ausente, created_at |-> IsoZ(Agora0 - 1),
                     severidade |-> Baixo],
                    [data_evento |-> Vazia, created_at |-> IsoZ(Agora0 - 1),
                     severidade |-> Critico]},
     intervalos |-> {SemIntervalo},
     fusoLocal |-> 0],
    \* relative windows: the start of the 7d window
    [registros |-> {H(IsoZ(D0 - 6 * DAY), Medio),
                    H(IsoZ(D0 - 6 * DAY - 1), NaoClassificado)},
     intervalos |-> {SemIntervalo},
     fusoLocal |-> 0],
    \* relative windows: the start of the 30d window
    [registros |-> {H(Numero(D0 - 29 * DAY), SemRotulo),
                    H(IsoZ(D0 - 29 * DAY - 1), Baixo)},
     intervalos |-> {SemIntervalo},
     fusoLocal |-> 0],
    \* explicit ranges: zero width, reversed, an hour and a half
    [registros |-> {H(IsoZ(A), Alto), H(IsoZ(A + 3), Baixo)},
     intervalos |-> {SemIntervalo, Intervalo(IsoZ(A), IsoZ(A)),
                     Intervalo(IsoZ(A), IsoZ(A + 3)),
                     Intervalo(IsoZ(A + 3), IsoZ(A))},
     fusoLocal |-> 0],
    \* explicit ranges: 36 hours and just above
    [registros |-> {H(IsoZ(A + 36 * HOUR - 1), Critico),
                    H(IsoZ(A + 36 * HOUR), Medio)},
     intervalos |-> {SemIntervalo, Intervalo(IsoZ(A), IsoZ(A + 36 * HOUR)),
                     Intervalo(IsoZ(A), IsoZ(A + 36 * HOUR + 1))},
     fusoLocal |-> 0],
    \* explicit ranges of daily buckets
    [registros |-> {H(IsoZ(A + DAY + 1), Baixo), H(IsoZ(A + 2 * DAY), Alto)},
     intervalos |-> {SemIntervalo, Intervalo(IsoZ(A), IsoZ(A + 2 * DAY)),
                     Intervalo(IsoZ(A), IsoZ(A + 2 * DAY + 1))},
     fusoLocal |-> 0],
    \* explicit ranges with one endpoint left out, a record that does not parse
    [registros |-> {H(Invalida, Critico), H(IsoZ(A + 1), Baixo)},
     intervalos |-> {SemIntervalo, Intervalo(IsoZ(A), Ausente),
                     Intervalo(Ausente, IsoZ(A + 3)),
                     Intervalo(Vazia, IsoZ(A + 6))},
     fusoLocal |-> 0],
    \* explicit ranges with one endpoint left out, records that parse
    [registros |-> {H(IsoZ(A + 1), Medio), H(IsoZ(A + 5), Alto)},
     intervalos |-> {SemIntervalo, Intervalo(IsoZ(A), Ausente),
                     Intervalo(Ausente, IsoZ(A + 6))},
     fusoLocal |-> 0],
    \* explicit ranges with an endpoint that does not parse
    [registros |-> {H(IsoZ(1), Baixo), H(IsoZ(2), Medio)},
     intervalos |-> {SemIntervalo, Intervalo(Invalida, IsoZ(3)),
                     Intervalo(IsoZ(1), Invalida)},
     fusoLocal |-> 0],
    \* timestamps without a zone designator, browser in UTC-3
    [registros |-> {H(IsoSemFuso(Agora0), Alto), H(BrDia13a31(Agora0), Baixo)},
     intervalos |-> {SemIntervalo},
     fusoLocal |-> 0 - 3 * HOUR],
    \* epoch seconds and epoch milliseconds, browser in UTC-3
    [registros |-> {H(Numero(Agora0), Critico), H(Numero(Agora0 * 1000), Medio)},
     intervalos |-> {SemIntervalo},
     fusoLocal |-> 0 - 3 * HOUR],
    \* timestamps without a zone designator, browser in UTC
    [registros |-> {H(IsoSemFuso(Agora0), Critico),
                    H(BrDia1a12(Agora0, Agora0 - 90 * DAY), Baixo)},
     intervalos |-> {SemIntervalo},
     fusoLocal |-> 0] }

\* the lists a fetch may return
Listas(recs) == UNION {[1..n -> recs] : n \in 0..MaxAlertas}

-----------------------------------------------------------------------------
(* State machine: the chart component and what makes it compute again      *)

SemAnterior == [ha |-> FALSE, agora |-> 0, sUtc |-> 0, eUtc |-> 0]

\* what is remembered of a call when the next one is made
Resumo(c) ==
  IF c.modo = "relativo" /\ c.period = "24h"
    THEN [ha |-> TRUE, agora |-> c.agora, sUtc |-> c.sUtc.v, eUtc |-> c.eUtc.v]
    ELSE SemAnterior

\* the locals of construirTimelineAPartirDeAlertas(as, p, r, _) at its return
Locais(as, p, r) ==
  LET j == Janela(as, p, r) IN
  [modo |-> IF rangeAtivo(r) THEN "explicito" ELSE "relativo",
   period |-> p, agora |-> agora,
   startUtc |-> j.startUtc, endUtc |-> j.endUtc,
   sUtc |-> j.sUtc, eUtc |-> j.eUtc, bucketSize |-> j.bucketSize]

\* const dados = useMemo(() => construirTimelineAPartirDeAlertas(...), [...])
Render(as, p, r, tz) ==
  /\ dados' = construirTimelineAPartirDeAlertas(as, p, r, tz)
  /\ chamada' = Locais(as, p, r)
  /\ anterior' = Resumo(chamada)

InitLinha ==
  /\ \E c \in Cenarios :
       /\ upstream = c.registros
       /\ intervalos = c.intervalos
       /\ fusoLocal = c.fusoLocal
  /\ agora = Agora0
  /\ headers = <<>>
  /\ alerts = <<>>
  /\ periodo = "24h"
  /\ range = SemIntervalo
  /\ timezone = "America/Sao_Paulo"
  /\ dados = construirTimelineAPartirDeAlertas(<<>>, "24h", SemIntervalo,
                                               "America/Sao_Paulo")
  /\ chamada = Locais(<<>>, "24h", SemIntervalo)
  /\ anterior = SemAnterior

Init ==
  /\ InitLinha
  /\ NumeroParado
  /\ AdaptadorParado
  /\ SelecaoParada
  /\ PaginaParada
  /\ DemaisParados

\* what the steps of the timeline leave alone
foraDaLinha == <<varsNumero, varsAdaptador, varsSelecao, varsPagina, varsDemais>>

\* time passes
Tick ==
  /\ agora < Agora0 + MaxTicks
  /\ agora' = agora + 1
  /\ UNCHANGED <<fusoLocal, headers, alerts, periodo, range, timezone,
                 dados, chamada, anterior, upstream, intervalos>>
  /\ UNCHANGED foraDaLinha

\* setHeaders(data); alerts = headers.map(adaptarHeaderParaAlerta)
ReceberAlertas(hs) ==
  LET as == [i \in DOMAIN hs |-> adaptarHeaderParaAlerta(hs[i])] IN
  /\ headers' = hs
  /\ alerts' = as
  /\ Render(as, periodo, range, timezone)
  /\ UNCHANGED <<agora, fusoLocal, periodo, range, timezone, upstream,
                 intervalos>>
  /\ UNCHANGED foraDaLinha

\* onClick={() => setPeriodo(p)}, disabled={rangeAtivo && desabilitar...}
SetPeriodo(p) ==
  /\ ~rangeAtivo(range)
  /\ p # periodo
  /\ periodo' = p
  /\ Render(alerts, p, range, timezone)
  /\ UNCHANGED <<agora, fusoLocal, headers, alerts, range, timezone, upstream,
                 intervalos>>
  /\ UNCHANGED foraDaLinha

\* the page hands the chart another range
AplicarIntervalo(r) ==
  /\ range' = r
  /\ Render(alerts, periodo, r, timezone)
  /\ UNCHANGED <<agora, fusoLocal, headers, alerts, periodo, timezone,
                 upstream, intervalos>>
  /\ UNCHANGED foraDaLinha

\* setTimezone(tz) of the preferences
SetTimezone(tz) ==
  /\ tz # timezone
  /\ timezone' = tz
  /\ Render(alerts, periodo, range, tz)
  /\ UNCHANGED <<agora, fusoLocal, headers, alerts, periodo, range, upstream,
                 intervalos>>
  /\ UNCHANGED foraDaLinha

Next ==
  \/ Tick
  \/ \E hs \in Listas(upstream) : ReceberAlertas(hs)
  \/ \E p \in {"24h", "7d", "30d"} : SetPeriodo(p)
  \/ \E r \in intervalos : AplicarIntervalo(r)
  \/ \E tz \in Fusos : SetTimezone(tz)

Spec == Init /\ [][Next]_vars

-----------------------------------------------------------------------------
(* Properties.  The window of the last call is [chamada.sUtc, chamada.eUtc) *)
(* and dados is what that call returned for the current alerts.            *)

Severidades == {"baixa", "média", "alta", "crítica"}

Contador(b, sev) ==
  IF sev = "baixa" THEN b.baixa
  ELSE IF sev = "média" THEN b.media
  ELSE IF sev = "alta" THEN b.alta
  ELSE b.critica

RECURSIVE TotalSev(_, _)
TotalSev(bins, sev) ==
  IF bins = <<>> THEN 0
  ELSE Contador(Head(bins), sev) + TotalSev(Tail(bins), sev)

Total(bins) ==
  TotalSev(bins, "baixa") + TotalSev(bins, "média") + TotalSev(bins, "alta")
    + TotalSev(bins, "crítica")

JanelaFinita == chamada.sUtc.cls = "fin" /\ chamada.eUtc.cls = "fin"

\* alert a resolves to an instant t with lo <= t < hi
Entre(a, lo, hi) ==
  LET t == parseEmUtc(a.createdAt) IN
  t.cls = "fin" /\ lo <= t.v /\ t.v < hi

\* alert a resolves to an instant of the window of the last call
NaJanela(a) ==
  JanelaFinita /\ Entre(a, chamada.sUtc.v, chamada.eUtc.v)

\* C1: in either mode, for each severity the counters of that severity
\* summed over all returned buckets equal the number of input alerts of that
\* severity whose createdAt resolves to an instant t with start <= t < end;
\* unparsable alerts and alerts with t < start or t >= end add nothing, so
\* the sum of all counters is the number of alerts inside the window.
C1_Conservacao ==
  /\ \A sev \in Severidades :
       TotalSev(dados, sev) =
         Cardinality({i \in DOMAIN alerts :
                        NaJanela(alerts[i]) /\ alerts[i].severity = sev})
  /\ Total(dados) = Cardinality({i \in DOMAIN alerts : NaJanela(alerts[i])})

\* an alert inside the window, an alert exactly at its end and an alert that
\* does not parse or lies before the start, after a call that counted one
C1_Witness ==
  /\ JanelaFinita
  /\ Total(dados) = 1
  /\ Len(alerts) = 2
  /\ \E i \in DOMAIN alerts : NaJanela(alerts[i])
  /\ \E i \in DOMAIN alerts :
       \/ parseEmUtc(alerts[i].createdAt) = chamada.eUtc
       \/ parseEmUtc(alerts[i].createdAt) = Nulo

\* the instants covered by the returned buckets end here
FimDosBaldes == chamada.sUtc.v + Len(dados) * chamada.bucketSize

\* C2 as stated: for a non-empty alert list and a window whose endpoints
\* resolve, the buckets' union [start, start + n*width) is exactly
\* [start, end), so end - start is a multiple of the width, in both modes.
C2_Original ==
  (alerts # <<>> /\ chamada.startUtc.cls = "fin" /\ chamada.endUtc.cls = "fin") =>
    /\ JanelaFinita
    /\ Len(dados) >= 1
    /\ FimDosBaldes = chamada.eUtc.v
    /\ (chamada.eUtc.v - chamada.sUtc.v) % chamada.bucketSize = 0

\* C2 amended: for a non-empty alert list the buckets are contiguous from
\* start and cover [start, end); in relative mode their union is exactly
\* [start, end) and end - start is a multiple of the width; in explicit mode
\* their union [start, start + n*width) ends at or after end and less than
\* one width after it (exactly at end iff end - start is a multiple of the
\* width).
C2_Cobertura ==
  alerts # <<>> =>
    /\ JanelaFinita
    /\ Len(dados) >= 1
    /\ chamada.modo = "relativo" =>
         /\ FimDosBaldes = chamada.eUtc.v
         /\ (chamada.eUtc.v - chamada.sUtc.v) % chamada.bucketSize = 0
    /\ chamada.modo = "explicito" =>
         /\ chamada.eUtc.v <= FimDosBaldes
         /\ FimDosBaldes < chamada.eUtc.v + chamada.bucketSize
         /\ (FimDosBaldes = chamada.eUtc.v) <=>
              ((chamada.eUtc.v - chamada.sUtc.v) % chamada.bucketSize = 0)

\* an explicit range of an hour and a half over two alerts: two hourly buckets
C2_Witness ==
  /\ Len(alerts) = 2
  /\ chamada.modo = "explicito"
  /\ JanelaFinita
  /\ chamada.eUtc.v - chamada.sUtc.v = 3
  /\ Len(dados) = 2

\* the label the code gives the bucket that starts at instant t
RotuloDoBalde(t) ==
  IF chamada.modo = "explicito"
    THEN IF chamada.bucketSize = HOUR THEN rotuloHora(t, timezone)
         ELSE rotuloDiaMes(t, timezone)
    ELSE IF chamada.period = "24h" THEN rotuloHora(t, timezone)
         ELSE IF chamada.period = "7d" THEN rotuloSemana(t, timezone)
         ELSE rotuloDiaMes(t, timezone)

InicioDoBalde(k) == chamada.sUtc.v + (k - 1) * chamada.bucketSize

\* C3: element i of the returned array (dados[i + 1]) is the bucket that
\* starts at windowStart + i * bucketWidth: its label is the label of that
\* instant, and its counter of each severity is the number of alerts of that
\* severity inside the window with createdAt in
\* [windowStart + i*width, windowStart + (i+1)*width); all buckets have the
\* one width of the call.
C3_Contiguo ==
  \A k \in DOMAIN dados :
    /\ dados[k].hour = RotuloDoBalde(InicioDoBalde(k))
    /\ \A sev \in Severidades :
         Contador(dados[k], sev) =
           Cardinality({i \in DOMAIN alerts :
              /\ NaJanela(alerts[i])
              /\ Entre(alerts[i], InicioDoBalde(k), InicioDoBalde(k + 1))
              /\ alerts[i].severity = sev})

\* two alerts counted in two different buckets, neither the first bucket's
\* start, one of them strictly inside its bucket
C3_Witness ==
  /\ JanelaFinita
  /\ Len(dados) >= 3
  /\ \E k1, k2 \in DOMAIN dados :
       /\ 1 < k1 /\ k1 < k2
       /\ \E sev \in Severidades : Contador(dados[k1], sev) = 1
       /\ \E sev \in Severidades : Contador(dados[k2], sev) = 1
       /\ \E i \in DOMAIN alerts :
            /\ Entre(alerts[i], InicioDoBalde(k1) + 1, InicioDoBalde(k1 + 1))

\* what C4 promises of a zero-width window
UmaHoraAPartirDoInicio ==
  /\ chamada.sUtc = chamada.startUtc
  /\ chamada.eUtc = Fin(chamada.startUtc.v + HOUR)
  /\ chamada.bucketSize = HOUR
  /\ Len(dados) = 1
  /\ Total(dados) =
       Cardinality({i \in DOMAIN alerts :
          Entre(alerts[i], chamada.startUtc.v, chamada.startUtc.v + HOUR)})

\* C4 as stated: in explicit mode, whenever the resolved end is less than or
\* equal to the resolved start, the call returns at least one bucket; when
\* start = end it returns the window [start, start + 1h) as exactly one
\* hourly bucket, whose counters count the alerts with createdAt in that hour.
C4_Original ==
  (chamada.modo = "explicito" /\ MenorIgual(chamada.endUtc, chamada.startUtc)) =>
    /\ Len(dados) >= 1
    /\ (chamada.startUtc.cls = "fin" /\ chamada.endUtc = chamada.startUtc) =>
         UmaHoraAPartirDoInicio

\* The same statement for the calls whose two endpoints are instants: this
\* one holds in every reachable state.
C4_JanelaMinima ==
  ( /\ chamada.modo = "explicito"
    /\ chamada.startUtc.cls = "fin"
    /\ chamada.endUtc.cls = "fin"
    /\ chamada.endUtc.v <= chamada.startUtc.v ) =>
      /\ Len(dados) >= 1
      /\ chamada.endUtc.v = chamada.startUtc.v => UmaHoraAPartirDoInicio

\* a zero-width range whose hour holds one of two alerts
C4_Witness ==
  /\ chamada.modo = "explicito"
  /\ chamada.startUtc.cls = "fin"
  /\ chamada.endUtc = chamada.startUtc
  /\ Len(alerts) = 2
  /\ Total(dados) = 1

\* the raw timestamp adaptarHeaderParaAlerta reads from a header
DataEvento(h) ==
  IF h.data_evento.tipo # "ausente" THEN h.data_evento ELSE h.created_at

\* C5 as stated: a record whose timestamp is absent, empty or malformed is
\* counted in no bucket: neither the current time nor zero stands in for it
\* anywhere from the raw header to the timeline, so the counters add up to
\* the number of records that carry a timestamp and resolve into the window.
C5_Original ==
  /\ \A i \in DOMAIN headers :
       DataEvento(headers[i]).tipo \in {"ausente", "vazia", "invalida"} =>
         parseEmUtc(alerts[i].createdAt) = Nulo
  /\ Total(dados) =
       Cardinality({i \in DOMAIN headers :
          /\ DataEvento(headers[i]).tipo \notin {"ausente", "vazia", "invalida"}
          /\ NaJanela(alerts[i])})

\* the resolvable createdAt instants of the current alerts
Resoluveis ==
  {parseEmUtc(alerts[i].createdAt).v : i \in
     {k \in DOMAIN alerts : parseEmUtc(alerts[k].createdAt).cls = "fin"}}

\* C6 as stated: in explicit mode a missing start is the minimum, a missing
\* end the maximum, of the resolvable createdAt instants; with an empty alert
\* list the missing endpoint is the current instant; the window is finite and
\* at least one bucket is returned.
C6_Original ==
  chamada.modo = "explicito" =>
    /\ (~Truthy(range.start) /\ Resoluveis # {}) =>
         /\ chamada.startUtc.cls = "fin"
         /\ \A t \in Resoluveis : chamada.startUtc.v <= t
         /\ chamada.startUtc.v \in Resoluveis
    /\ (~Truthy(range.end) /\ Resoluveis # {}) =>
         /\ chamada.endUtc.cls = "fin"
         /\ \A t \in Resoluveis : t <= chamada.endUtc.v
         /\ chamada.endUtc.v \in Resoluveis
    /\ (~Truthy(range.start) /\ alerts = <<>>) =>
         chamada.startUtc = Fin(chamada.agora)
    /\ (~Truthy(range.end) /\ alerts = <<>>) =>
         chamada.endUtc = Fin(chamada.agora)
    /\ alerts = <<>> => (JanelaFinita /\ Len(dados) >= 1)

\* C7: in relative mode for period 24h, a call made in the same hour as the
\* 24h call before it has the same window start and end; a call made in the
\* next hour has start and end later by exactly one hour.
C7_Estabilidade ==
  ( /\ anterior.ha
    /\ chamada.modo = "relativo"
    /\ chamada.period = "24h" ) =>
      /\ (chamada.agora \div HOUR = anterior.agora \div HOUR) =>
           /\ chamada.sUtc.v = anterior.sUtc
           /\ chamada.eUtc.v = anterior.eUtc
      /\ (chamada.agora \div HOUR = anterior.agora \div HOUR + 1) =>
           /\ chamada.sUtc.v = anterior.sUtc + HOUR
           /\ chamada.eUtc.v = anterior.eUtc + HOUR

\* a 24h call half an hour after a 24h call, across an hour boundary
C7_Witness ==
  /\ anterior.ha
  /\ chamada.modo = "relativo"
  /\ chamada.period = "24h"
  /\ chamada.agora = anterior.agora + 1
  /\ chamada.agora \div HOUR = anterior.agora \div HOUR + 1

\* a 24h call half an hour after a 24h call, within the same hour
C7_WitnessMesmaHora ==
  /\ anterior.ha
  /\ chamada.modo = "relativo"
  /\ chamada.period = "24h"
  /\ chamada.agora = anterior.agora + 1
  /\ chamada.agora \div HOUR = anterior.agora \div HOUR

SpanDoPeriodo(p) ==
  IF p = "24h" THEN 24 * HOUR ELSE IF p = "7d" THEN 7 * DAY ELSE 30 * DAY

\* C8: in relative mode end is a multiple of the bucket width with
\* now < end <= now + width, start = end - span (24h, 7d, 30d), the width is
\* one hour for 24h and one day otherwise, span / width buckets are returned
\* (24, 7, 30) and the current instant lies inside the last bucket.
C8_Relativa ==
  chamada.modo = "relativo" =>
    LET w == chamada.bucketSize
        e == chamada.eUtc.v
        n == Len(dados)
    IN /\ w = (IF chamada.period = "24h" THEN HOUR ELSE DAY)
       /\ e % w = 0
       /\ chamada.agora < e
       /\ e <= chamada.agora + w
       /\ chamada.sUtc.v = e - SpanDoPeriodo(chamada.period)
       /\ n * w = SpanDoPeriodo(chamada.period)
       /\ n = (IF chamada.period = "24h" THEN 24
               ELSE IF chamada.period = "7d" THEN 7 ELSE 30)
       /\ InicioDoBalde(n) <= chamada.agora
       /\ chamada.agora < InicioDoBalde(n + 1)

\* a 30d call made exactly on a day boundary
C8_Witness ==
  /\ chamada.modo = "relativo"
  /\ chamada.period = "30d"
  /\ chamada.agora % DAY = 0
  /\ Len(dados) = 30

\* max(1, ceil(span / W)) buckets of width W, W one hour when
\* span <= 36 hours and one day when span > 36 hours
ContagemPeloSpan ==
  LET span == chamada.eUtc.v - chamada.sUtc.v
      W == IF span <= 36 * HOUR THEN HOUR ELSE DAY
      q == (span + W - 1) \div W
  IN /\ chamada.bucketSize = W
     /\ Len(dados) = (IF q < 1 THEN 1 ELSE q)

\* C9 as stated: in explicit mode the number of buckets is
\* max(1, ceil(span / W)), so at least one, span = end - start after the
\* one-hour minimum, W one hour when span <= 36 hours and one day when
\* span > 36 hours.
C9_Original ==
  chamada.modo = "explicito" =>
    /\ Len(dados) >= 1
    /\ JanelaFinita => ContagemPeloSpan

\* The same statement for the explicit calls whose window is finite: this
\* one holds in every reachable state.
C9_NumeroDeBaldes ==
  (chamada.modo = "explicito" /\ JanelaFinita) => ContagemPeloSpan

\* a range of exactly 36 hours: 36 hourly buckets
C9_Witness ==
  /\ chamada.modo = "explicito"
  /\ JanelaFinita
  /\ chamada.eUtc.v - chamada.sUtc.v = 36 * HOUR
  /\ Len(dados) = 36

\* C10 as stated: a date-time string without a zone designator (ISO-like or
\* dd/mm/yyyy) resolves to the instant its fields spell as UTC fields, the
\* instant the same moment written with a trailing Z resolves to, which is
\* also the instant its epoch-seconds and its epoch-milliseconds numbers
\* resolve to.
C10_Original ==
  \A i \in DOMAIN headers :
    DataEvento(headers[i]).tipo \in {"isoSemFuso", "brDia13a31", "brDia1a12"} =>
      LET t == DataEvento(headers[i]).v IN
      /\ parseEmUtc(alerts[i].createdAt) = Fin(t)
      /\ parseEmUtc(alerts[i].createdAt) = parseEmUtc(IsoZ(t))
      /\ parseEmUtc(alerts[i].createdAt) = parseEmUtc(paraISO(Numero(t)))
      /\ parseEmUtc(alerts[i].createdAt) = parseEmUtc(paraISO(Numero(t * 1000)))

-----------------------------------------------------------------------------
(* Numeric timestamps at full width.  The threshold 1e12 of paraISO and    *)
(* the largest time value of a Date (8.64e15 ms) do not fit the half-hour  *)
(* grid of the timeline, so the numeric branch of paraISO is also modelled *)
(* on exact non-negative integers, written hi * Base + lo with             *)
(* 0 <= lo < Base; NaN and the infinities are values of their own.         *)

Base == 1000000000

Largo(hi, lo) == [cls |-> "fin", hi |-> hi, lo |-> lo]
LargoNaN == [cls |-> "nan", hi |-> 0, lo |-> 0]
LargoInfinity == [cls |-> "inf", hi |-> 0, lo |-> 0]
LargoNegInfinity == [cls |-> "ninf", hi |-> 0, lo |-> 0]

\* a < b, both finite
MenorLargo(a, b) == a.hi < b.hi \/ (a.hi = b.hi /\ a.lo < b.lo)

\* n + d for a small integer d
MaisPequeno(n, d) ==
  LET t == n.lo + d IN
  IF t < 0 THEN Largo(n.hi - 1, t + Base)
  ELSE IF t >= Base THEN Largo(n.hi + 1, t - Base)
  ELSE Largo(n.hi, t)

\* v * 1000, for finite v < 1e12 (so hi < 1000)
Vezes1000(v) ==
  Largo(v.hi * 1000 + v.lo \div 1000000, (v.lo % 1000000) * 1000)

\* the literal 1e12
DezNaDoze == Largo(1000, 0)

\* a Date holds a time value of at most 8.64e15 ms in magnitude; beyond it,
\* and for NaN and the infinities, the Date is invalid and toISOString()
\* throws a RangeError
MaxTimeValue == Largo(8640000, 0)

DataValida(ms) == ms.cls = "fin" /\ ~MenorLargo(MaxTimeValue, ms)

EmSegundos_Inclusivo(v) ==
  CASE v.cls = "fin" -> ~MenorLargo(DezNaDoze, v)
    [] v.cls = "ninf" -> TRUE
    [] OTHER -> FALSE

\* line 621: v < 1e12
EmSegundos(v) ==
  CASE v.cls = "fin" -> MenorLargo(v, DezNaDoze)
    [] v.cls = "ninf" -> TRUE
    [] OTHER -> FALSE

\* line 621: const ms = v < 1e12 ? v * 1000 : v
MsDoNumero(v) ==
  IF EmSegundos(v)
    THEN IF v.cls = "fin" THEN Vezes1000(v) ELSE v
    ELSE v

Retornou(x) == [feito |-> TRUE, lancou |-> FALSE, erro |-> "", valor |-> x]
Lancou(e) ==
  [feito |-> TRUE, lancou |-> TRUE, erro |-> e,
   valor |-> [cls |-> "nenhum", hi |-> 0, lo |-> 0]]

\* paraISO(v) for typeof v === "number": the instant of the ISO string it
\* returns, or the exception new Date(ms).toISOString() throws
paraISONumero(v) ==
  LET ms == MsDoNumero(v) IN
  IF DataValida(ms) THEN Retornou(ms) ELSE Lancou("RangeError")

\* adaptarHeaderParaAlerta({ data_evento: v }): the instant of createdAt.
\* paraISO is called outside any try, so what it throws reaches the caller;
\* the string it returns is never empty, so "|| new Date()" is not taken.
adaptarNumero(v) ==
  LET r == paraISONumero(v) IN
  IF r.lancou THEN Lancou(r.erro) ELSE Retornou(r.valor)

\* the numeric timestamps tried: within MaxDesvio of zero, of an epoch in
\* seconds and the same in milliseconds, of 1e12 and of the largest time
\* value; and the non-finite numbers
Marcos ==
  {Largo(0, MaxDesvio), Largo(1, 756213661), Largo(1756, 213661000),
   DezNaDoze, MaxTimeValue}

Numeros ==
  {MaisPequeno(m, d) : m \in Marcos, d \in (0 - MaxDesvio)..MaxDesvio}
    \cup {LargoNaN, LargoInfinity, LargoNegInfinity}

\* the timeline at rest
LinhaParada ==
  /\ agora = Agora0
  /\ fusoLocal = 0
  /\ headers = <<>>
  /\ alerts = <<>>
  /\ periodo = "24h"
  /\ range = SemIntervalo
  /\ timezone = "America/Sao_Paulo"
  /\ dados = <<>>
  /\ chamada = Locais(<<>>, "24h", SemIntervalo)
  /\ anterior = SemAnterior
  /\ upstream = {}
  /\ intervalos = {SemIntervalo}

\* what the steps of the numeric normaliser leave alone
foraDoNumero == <<varsLinha, varsAdaptador, varsSelecao, varsPagina, varsDemais>>

InitNumero ==
  /\ numero \in Numeros
  /\ saidaParaISO = Pendente
  /\ saidaAdaptar = Pendente
  /\ LinhaParada
  /\ AdaptadorParado
  /\ SelecaoParada
  /\ PaginaParada
  /\ DemaisParados

ChamarParaISO ==
  /\ ~saidaParaISO.feito
  /\ saidaParaISO' = paraISONumero(numero)
  /\ UNCHANGED <<numero, saidaAdaptar>>
  /\ UNCHANGED foraDoNumero

ChamarAdaptar ==
  /\ ~saidaAdaptar.feito
  /\ saidaAdaptar' = adaptarNumero(numero)
  /\ UNCHANGED <<numero, saidaParaISO>>
  /\ UNCHANGED foraDoNumero

NextNumero ==
  \/ ChamarParaISO
  \/ ChamarAdaptar

SpecNumero == InitNumero /\ [][NextNumero]_vars

\* ms \div 1000 and ms % 1000 at full width
Div1000(ms) ==
  Largo(ms.hi \div 1000, (ms.hi % 1000) * 1000000 + ms.lo \div 1000)
Resto1000(ms) == ms.lo % 1000

\* the numeric timestamps that denote an instant a Date can hold
NumeroNoAlcance(v) ==
  v.cls = "fin" /\ (MenorLargo(v, DezNaDoze) \/ ~MenorLargo(MaxTimeValue, v))

\* C11: a numeric timestamp v (one whose instant a Date can hold) resolves
\* to the instant v * 1000 ms when v < 10^12 and to the instant v ms when
\* v >= 10^12; 10^12 itself is taken as milliseconds.
C11_Limiar ==
  \A r \in {saidaParaISO, saidaAdaptar} :
    (r.feito /\ NumeroNoAlcance(numero)) =>
      /\ ~r.lancou
      /\ MenorLargo(numero, DezNaDoze) =>
           (Div1000(r.valor) = numero /\ Resto1000(r.valor) = 0)
      /\ ~MenorLargo(numero, DezNaDoze) => r.valor = numero

\* paraISO has resolved the value 10^12 itself, as milliseconds
C11_Witness ==
  /\ saidaParaISO.feito
  /\ numero = DezNaDoze
  /\ saidaParaISO.valor = DezNaDoze

\* C17 as stated, for the numeric timestamps: neither paraISO nor
\* adaptarHeaderParaAlerta propagates an exception to its caller for any
\* number, out-of-range and non-finite ones included; a malformed number
\* leads only to exclusion or to a default.
C17_Original ==
  /\ ~saidaParaISO.lancou
  /\ ~saidaAdaptar.lancou

\* paraISO has resolved the value 10^12 - 1, as seconds
C11_WitnessAbaixo ==
  /\ saidaParaISO.feito
  /\ numero = Largo(999, 999999999)
  /\ saidaParaISO.valor = Largo(999999, 999999000)

-----------------------------------------------------------------------------
(* From a record of the server to a canonical alert: normalizarCabecalho   *)
(* (api/alerts.ts) and then adaptarHeaderParaAlerta (index.tsx).  A field  *)
(* the record does not carry (or carries as null) is SemRotulo for a text  *)
(* and Ausente for a timestamp.                                            *)

\* a ?? b ?? c for texts, and for timestamps
PrimeiroTexto(xs, d) ==
  IF \E i \in DOMAIN xs : xs[i] # SemRotulo
    THEN xs[CHOOSE i \in DOMAIN xs :
              xs[i] # SemRotulo /\ \A k \in 1..(i - 1) : xs[k] = SemRotulo]
    ELSE d

PrimeiraData(xs) ==
  IF \E i \in DOMAIN xs : xs[i].tipo # "ausente"
    THEN xs[CHOOSE i \in DOMAIN xs :
              xs[i].tipo # "ausente"
              /\ \A k \in 1..(i - 1) : xs[k].tipo = "ausente"]
    ELSE Ausente

\* function normalizarCabecalho(h: any): ApiAlertHeaderRaw
normalizarCabecalho(h) ==
  LET de == PrimeiraData(<<h.data_evento, h.event_time, h.created_at>>)
  IN [alerta_id |-> PrimeiroTexto(<<h.alerta_id, h.id, h.alertId>>, <<>>),
      data_evento |-> IF ~Truthy(de) /\ Truthy(h.created_at)
                        THEN h.created_at ELSE de,
      created_at |-> h.created_at,
      severidade |-> PrimeiroTexto(<<h.severidade, h.severity>>, SemRotulo),
      status |-> PrimeiroTexto(<<h.status, h.state>>, SemRotulo)]

\* what mapearSeveridade and mapearStatus return inside
\* adaptarHeaderParaAlerta(h), before the defaults
LocaisAdaptar(h) ==
  [sev |-> mapearSeveridade(h.severidade),
   status |-> mapearStatus(Campo(h, "status"))]

\* Severity labels tried: every text of at most MaxRotulo letters over the
\* letters the prefixes are made of (and one that is in none), and the
\* labels of the served records
LetrasSeveridade ==
  {"c", "r", "C", "R", "a", "l", "A", "m", "M", "e", "é", "É", "b", "x"}

RotulosSeveridade ==
  UNION {[1..n -> LetrasSeveridade] : n \in 0..MaxRotulo}
    \cup {SemRotulo, Baixo, Medio, Alto, Critico, NaoClassificado,
          <<"c", "r", "í", "t", "i", "c", "a">>,
          <<"C", "R", "I", "T", "I", "C", "A">>}

toUpperCaseChar(c) ==
  IF \E i \in DOMAIN Minusculas : Minusculas[i] = c
    THEN Maiusculas[CHOOSE i \in DOMAIN Minusculas : Minusculas[i] = c]
    ELSE c

toUpperCase(s) == [i \in DOMAIN s |-> toUpperCaseChar(s[i])]

Capitalizar(s) ==
  [i \in DOMAIN s |-> IF i = 1 THEN toUpperCaseChar(s[i]) ELSE s[i]]

Acentuar(s) == [i \in DOMAIN s |-> IF s[i] = "e" THEN "é" ELSE s[i]]

Inserir(s, k, c) == SubSeq(s, 1, k) \o <<c>> \o SubSeq(s, k + 1, Len(s))

\* up to n separators put anywhere into the texts of ws
RECURSIVE ComSeparadores(_, _)
ComSeparadores(ws, n) ==
  IF n = 0 THEN ws
  ELSE LET menos == ComSeparadores(ws, n - 1) IN
       menos \cup UNION {{Inserir(w, k, c) :
                              k \in 0..Len(w), c \in Separadores} :
                            w \in menos}

\* Status labels tried: the spellings the code recognises, spellings it
\* does not, each in lower case, capitalised, in upper case and with
\* accents, with up to MaxSeparadores spaces or underscores put in
PalavrasStatus ==
  GrafiasEmProgresso \cup GrafiasFechada \cup GrafiasAberta
    \cup {<<"e", "m", "p", "r", "o", "g", "r", "e", "s", "s", "o">>,
          <<"f", "e", "c", "h", "a", "d", "o">>,
          <<"a", "b", "e", "r", "t", "a", "s">>,
          <<"o", "p", "e">>,
          <<"p", "e", "n", "d", "e", "n", "t", "e">>,
          <<"x">>}

\* the Status type
StatusInternos == {"aberta", "em_progresso", "fechada"}

\* the labels the ApiAlertHeaderRaw type documents for status
RotulosDoServidor ==
  {<<"A", "b", "e", "r", "t", "o">>,
   <<"F", "e", "c", "h", "a", "d", "o">>,
   <<"E", "m", " ", "P", "r", "o", "g", "r", "e", "s", "s", "o">>}

\* the labels a status update writes
RotulosEscritos == {statusParaAPI(st) : st \in StatusInternos}

RotulosStatus ==
  ComSeparadores(
    PalavrasStatus
      \cup {toUpperCase(w) : w \in PalavrasStatus}
      \cup {Capitalizar(w) : w \in PalavrasStatus}
      \cup {Acentuar(w) : w \in PalavrasStatus},
    MaxSeparadores)
    \cup RotulosDoServidor \cup RotulosEscritos
    \cup {SemRotulo, <<>>}

\* a record that carries every field once
BrutoBase ==
  [alerta_id |-> <<"a", "1">>, id |-> SemRotulo, alertId |-> SemRotulo,
   data_evento |-> IsoZ(D0), event_time |-> Ausente, created_at |-> Ausente,
   severidade |-> Alto, severity |-> SemRotulo,
   status |-> <<"A", "b", "e", "r", "t", "a">>, state |-> SemRotulo]

\* the records tried: BrutoBase with its severity, its status, its three
\* id fields or its three timestamp fields replaced
Brutos ==
  {[BrutoBase EXCEPT !.severidade = s] : s \in RotulosSeveridade}
    \cup {[BrutoBase EXCEPT !.severidade = SemRotulo, !.severity = s] :
            s \in {Baixo, Critico, NaoClassificado, SemRotulo}}
    \cup {[BrutoBase EXCEPT !.status = t] : t \in RotulosStatus}
    \cup {[BrutoBase EXCEPT !.status = SemRotulo, !.state = t] :
            t \in {<<"c", "l", "o", "s", "e", "d">>, <<"E", "m", " ", "A", "n", "d", "a", "m", "e", "n", "t", "o">>, SemRotulo}}
    \cup {[BrutoBase EXCEPT !.alerta_id = a, !.id = b, !.alertId = c] :
            a \in {SemRotulo, <<>>, <<"a", "1">>},
            b \in {SemRotulo, <<>>, <<"b", "2">>},
            c \in {SemRotulo, <<>>, <<"c", "3">>}}
    \cup {[BrutoBase EXCEPT !.data_evento = a, !.event_time = b,
                            !.created_at = c] :
            a \in {Ausente, Vazia, IsoZ(D0)},
            b \in {Ausente, IsoZ(D0 + 1)},
            c \in {Ausente, Invalida, IsoZ(D0 + 2)}}

\* what the steps of the adapter leave alone
foraDoAdaptador == <<varsLinha, varsNumero, varsSelecao, varsPagina, varsDemais>>

InitAdaptador ==
  /\ bruto \in Brutos
  /\ cabecalho = normalizarCabecalho(BrutoBase)
  /\ alerta = adaptarHeaderParaAlerta(normalizarCabecalho(BrutoBase))
  /\ classes = LocaisAdaptar(normalizarCabecalho(BrutoBase))
  /\ fase = "bruto"
  /\ LinhaParada
  /\ NumeroParado
  /\ SelecaoParada
  /\ PaginaParada
  /\ DemaisParados

\* normalizarArray: arr.map(normalizarCabecalho)
Normalizar ==
  /\ fase = "bruto"
  /\ cabecalho' = normalizarCabecalho(bruto)
  /\ fase' = "normalizado"
  /\ UNCHANGED <<bruto, alerta, classes>>
  /\ UNCHANGED foraDoAdaptador

\* headers.map(adaptarHeaderParaAlerta)
Adaptar ==
  /\ fase = "normalizado"
  /\ alerta' = adaptarHeaderParaAlerta(cabecalho)
  /\ classes' = LocaisAdaptar(cabecalho)
  /\ fase' = "adaptado"
  /\ UNCHANGED <<bruto, cabecalho>>
  /\ UNCHANGED foraDoAdaptador

NextAdaptador ==
  \/ Normalizar
  \/ Adaptar

SpecAdaptador == InitAdaptador /\ [][NextAdaptador]_vars

\* the first two characters of v are a and b
Prefixo(v, a, b) == Len(v) >= 2 /\ v[1] = a /\ v[2] = b

\* C12: mapearSeveridade lower-cases its input and classifies it by prefix
\* only: "cr" gives crítica, "al" alta, "mé" or "me" média, "ba" baixa, and
\* every other input, absent and empty included, gives undefined (never a
\* default); "Crítico", "crítica" and "CRITICA" are crítica, "Médio" is
\* média and "N/A" is undefined.
C12_Prefixos ==
  /\ fase = "adaptado" =>
       LET s == cabecalho.severidade
           v == toLowerCase(s)
       IN classes.sev =
            (IF s = SemRotulo \/ s = <<>> THEN "undefined"
             ELSE IF Prefixo(v, "c", "r") THEN "crítica"
             ELSE IF Prefixo(v, "a", "l") THEN "alta"
             ELSE IF Prefixo(v, "m", "é") \/ Prefixo(v, "m", "e") THEN "média"
             ELSE IF Prefixo(v, "b", "a") THEN "baixa"
             ELSE "undefined")
  /\ mapearSeveridade(Critico) = "crítica"
  /\ mapearSeveridade(<<"c", "r", "í", "t", "i", "c", "a">>) = "crítica"
  /\ mapearSeveridade(<<"C", "R", "I", "T", "I", "C", "A">>) = "crítica"
  /\ mapearSeveridade(Medio) = "média"
  /\ mapearSeveridade(NaoClassificado) = "undefined"

\* the label "CRITICA" has been classified, as crítica
C12_Witness ==
  /\ fase = "adaptado"
  /\ cabecalho.severidade = <<"C", "R", "I", "T", "I", "C", "A">>
  /\ classes.sev = "crítica"

\* a character after diacritics are stripped and case is lowered, in one
\* step; separators have none
LetraNormal(c) ==
  CASE c \in {"é", "É", "E"} -> "e"
    [] c \in {"í", "Í", "I"} -> "i"
    [] c = "A" -> "a" [] c = "B" -> "b" [] c = "C" -> "c" [] c = "D" -> "d"
    [] c = "F" -> "f" [] c = "G" -> "g" [] c = "H" -> "h" [] c = "L" -> "l"
    [] c = "M" -> "m" [] c = "N" -> "n" [] c = "O" -> "o" [] c = "P" -> "p"
    [] c = "R" -> "r" [] c = "S" -> "s" [] c = "T" -> "t" [] c = "V" -> "v"
    [] c = "W" -> "w" [] c = "X" -> "x"
    [] OTHER -> c

RECURSIVE TextoNormal(_)
TextoNormal(s) ==
  IF s = <<>> THEN <<>>
  ELSE IF Head(s) = " " \/ Head(s) = "_" THEN TextoNormal(Tail(s))
  ELSE <<LetraNormal(Head(s))>> \o TextoNormal(Tail(s))

\* C13: mapearStatus strips diacritics, lower-cases and removes spaces and
\* underscores, then matches the whole normalized text against the fixed
\* spellings: em_progresso for the in-progress ones, fechada for the closed
\* ones, aberta for the open ones, and undefined (never a default) for every
\* other input, absent and empty included.
C13_Grafias ==
  fase = "adaptado" =>
    LET s == cabecalho.status
        n == TextoNormal(s)
    IN /\ classes.status \in {"em_progresso", "fechada", "aberta", "undefined"}
       /\ classes.status =
            (IF s = SemRotulo \/ s = <<>> THEN "undefined"
             ELSE IF n \in GrafiasEmProgresso THEN "em_progresso"
             ELSE IF n \in GrafiasFechada THEN "fechada"
             ELSE IF n \in GrafiasAberta THEN "aberta"
             ELSE "undefined")

\* a label with a capital and a space, "Em andamento" with the space
\* anywhere, has been classified as em_progresso
C13_Witness ==
  /\ fase = "adaptado"
  /\ Len(cabecalho.status) = 12
  /\ cabecalho.status[1] = "E"
  /\ \E k \in DOMAIN cabecalho.status : cabecalho.status[k] = " "
  /\ classes.status = "em_progresso"

\* a label that only begins with a recognised spelling has been classified
\* as undefined
C13_WitnessQuase ==
  /\ fase = "adaptado"
  /\ cabecalho.status = <<"a", "b", "e", "r", "t", "a", "s">>
  /\ classes.status = "undefined"

\* C14: every alert adaptarHeaderParaAlerta produces has one severity of
\* baixa, média, alta, crítica and one status of aberta, em_progresso,
\* fechada; it is the classifier's answer when there is one, média when the
\* severity label is absent or unclassifiable and aberta when the status
\* label is.
C14_UmaDeCada ==
  fase = "adaptado" =>
    /\ alerta.severity \in {"baixa", "média", "alta", "crítica"}
    /\ alerta.status \in {"aberta", "em_progresso", "fechada"}
    /\ classes.sev = "undefined" => alerta.severity = "média"
    /\ classes.sev # "undefined" => alerta.severity = classes.sev
    /\ classes.status = "undefined" => alerta.status = "aberta"
    /\ classes.status # "undefined" => alerta.status = classes.status
    /\ cabecalho.severidade = SemRotulo => alerta.severity = "média"
    /\ cabecalho.status = SemRotulo => alerta.status = "aberta"

\* a record with a status label no spelling matches has become an open alert
C14_Witness ==
  /\ fase = "adaptado"
  /\ cabecalho.status = <<"F", "e", "c", "h", "a", "d", "o">>
  /\ classes.status = "undefined"
  /\ alerta.status = "aberta"

\* C18 as stated: every canonical alert built from a fetched record
\* (normalizarCabecalho, then adaptarHeaderParaAlerta) has a non-empty id.
C18_Original ==
  fase = "adaptado" => (alerta.id # <<>> /\ alerta.id # SemRotulo)

-----------------------------------------------------------------------------
(* Properties of the timeline that compare two calls                       *)

\* the four severity counts of every bucket, without the labels
Contagens(bins) ==
  [k \in DOMAIN bins |->
    [baixa |-> bins[k].baixa, media |-> bins[k].media,
     alta |-> bins[k].alta, critica |-> bins[k].critica]]

\* C15: for the same alerts, period, range and current instant, two calls
\* of construirTimelineAPartirDeAlertas with different timezone values
\* return the same number of buckets and, at every index, the same four
\* severity counts.
C15_FusoSoRotulos ==
  \A tz1, tz2 \in Fusos :
    LET b1 == construirTimelineAPartirDeAlertas(alerts, periodo, range, tz1)
        b2 == construirTimelineAPartirDeAlertas(alerts, periodo, range, tz2)
    IN /\ Len(b1) = Len(b2)
       /\ Contagens(b1) = Contagens(b2)

\* the timezone has been changed to UTC over two alerts of which one is
\* counted, and the two timezones label the first bucket differently
C15_Witness ==
  /\ timezone = "UTC"
  /\ Len(alerts) = 2
  /\ Total(dados) >= 1
  /\ dados = construirTimelineAPartirDeAlertas(alerts, periodo, range, "UTC")
  /\ LET b2 == construirTimelineAPartirDeAlertas(alerts, periodo, range,
                                                 "America/Sao_Paulo")
     IN Len(b2) >= 1 /\ b2[1].hour # dados[1].hour

-----------------------------------------------------------------------------
(* The severity chips of the chart.  LinhaDoTempoAlertas computes its      *)
(* "dados" from the aggregator's output (the variable dados) and the       *)
(* selection; the result is the variable grafico.                          *)

DadosDoGrafico_SemZerar(base, sel) == base

\* LinhaDoTempoAlertas.tsx lines 67-79: what the useMemo returns for the
\* aggregator's output base and the selection sel
DadosDoGrafico(base, sel) ==
  IF Len(sel) = 0 THEN base
  ELSE LET want == {sel[i] : i \in DOMAIN sel} IN
    [k \in DOMAIN base |->
      [base[k] EXCEPT
         !.baixa = IF "baixa" \in want THEN base[k].baixa ELSE 0,
         !.media = IF "média" \in want THEN base[k].media ELSE 0,
         !.alta = IF "alta" \in want THEN base[k].alta ELSE 0,
         !.critica = IF "crítica" \in want THEN base[k].critica ELSE 0]]

\* const toggleSeverityChip = (s) => setSelSeveridades(prev => ...)
Alternado(prev, sev) ==
  IF \E i \in DOMAIN prev : prev[i] = sev
    THEN SelectSeq(prev, LAMBDA x : x # sev)
    ELSE Append(prev, sev)

\* what the steps of the chart with its chips leave alone
foraDoGrafico == <<varsNumero, varsAdaptador, varsPagina, varsDemais>>

\* the useMemo of LinhaDoTempoAlertas runs: the aggregator is called, and
\* its output goes through the selection
Memo(as, sel) ==
  /\ Render(as, periodo, range, timezone)
  /\ grafico' = DadosDoGrafico(
                  construirTimelineAPartirDeAlertas(as, periodo, range,
                                                    timezone), sel)

InitGrafico ==
  /\ InitLinha
  /\ severidadesSelecionadas = <<>>
  /\ grafico = DadosDoGrafico(dados, <<>>)
  /\ NumeroParado
  /\ AdaptadorParado
  /\ PaginaParada
  /\ DemaisParados

\* setHeaders(data) with the chips as they are
CarregarAlertas(hs) ==
  LET as == [i \in DOMAIN hs |-> adaptarHeaderParaAlerta(hs[i])] IN
  /\ headers' = hs
  /\ alerts' = as
  /\ Memo(as, severidadesSelecionadas)
  /\ UNCHANGED <<agora, fusoLocal, periodo, range, timezone, upstream,
                 intervalos, severidadesSelecionadas>>
  /\ UNCHANGED foraDoGrafico

\* the page hands the chart a range (the chart of the selected period)
AbrirIntervalo(r) ==
  /\ range # r
  /\ range' = r
  /\ Render(alerts, periodo, r, timezone)
  /\ grafico' = DadosDoGrafico(
                  construirTimelineAPartirDeAlertas(alerts, periodo, r,
                                                    timezone),
                  severidadesSelecionadas)
  /\ UNCHANGED <<agora, fusoLocal, headers, alerts, periodo, timezone,
                 upstream, intervalos, severidadesSelecionadas>>
  /\ UNCHANGED foraDoGrafico

\* aoAlternarSeveridade(sev): a chip of the legend is clicked
AlternarSeveridade(sev) ==
  LET sel == Alternado(severidadesSelecionadas, sev) IN
  /\ severidadesSelecionadas' = sel
  /\ Memo(alerts, sel)
  /\ UNCHANGED <<agora, fusoLocal, headers, alerts, periodo, range, timezone,
                 upstream, intervalos>>
  /\ UNCHANGED foraDoGrafico

\* aoDefinirSomente(s) of the gauge: only sev, or none
DefinirSomente(sel) ==
  /\ sel # severidadesSelecionadas
  /\ severidadesSelecionadas' = sel
  /\ Memo(alerts, sel)
  /\ UNCHANGED <<agora, fusoLocal, headers, alerts, periodo, range, timezone,
                 upstream, intervalos>>
  /\ UNCHANGED foraDoGrafico

NextGrafico ==
  \/ \E sel \in {<<>>} \cup {<<sev>> : sev \in {"baixa", "média", "alta",
                                                "crítica"}} :
       DefinirSomente(sel)
  \/ \E sev \in {"baixa", "média", "alta", "crítica"} : AlternarSeveridade(sev)
  \/ \E hs \in Listas(upstream) : CarregarAlertas(hs)
  \/ \E r \in intervalos : AbrirIntervalo(r)

SpecGrafico == InitGrafico /\ [][NextGrafico]_vars

Selecionadas == {severidadesSelecionadas[i] : i \in DOMAIN severidadesSelecionadas}

\* C16: when the selection is not empty the chart's data is the
\* aggregator's output, bucket by bucket: the same number of buckets, each
\* with the aggregator's label, the aggregator's count for every selected
\* severity and zero for every other severity; and the aggregator's output
\* is what it is for the alerts, period, range and timezone, whatever the
\* selection.
C16_SemRebalde ==
  /\ dados = construirTimelineAPartirDeAlertas(alerts, periodo, range,
                                               timezone)
  /\ severidadesSelecionadas # <<>> =>
       /\ Len(grafico) = Len(dados)
       /\ \A k \in DOMAIN dados :
            /\ grafico[k].hour = dados[k].hour
            /\ \A sev \in Severidades :
                 Contador(grafico[k], sev) =
                   (IF sev \in Selecionadas THEN Contador(dados[k], sev)
                    ELSE 0)

\* two alerts of two severities are counted by the aggregator and one of
\* the two severities is selected: the chart shows one
C16_Witness ==
  /\ Len(severidadesSelecionadas) >= 1
  /\ Total(dados) = 2
  /\ Total(grafico) = 1

-----------------------------------------------------------------------------
(* PaginaDashboard: the fetch effect and the status changes.  Objects live *)
(* in heap and are named by their address (their index); the state         *)
(* headers is a list of addresses.  React 18 (createRoot) runs the cleanup *)
(* of the previous effect and the new effect within the update that        *)
(* follows setFilters of a click, so applying filters is one step.         *)

\* a run of the effect: let cancelado = false; (async () => {...})()
\* estado: the request is waiting for the server, was answered by it, or
\* its await has returned; resposta: the records the server answered with
NovoEfeito == [estado |-> "esperando", cancelado |-> FALSE, resposta |-> <<>>]

Cancelar_Nada(e) == e

\* return () => { cancelado = true; }
Cancelar(e) == [e EXCEPT !.cancelado = TRUE]

Finally_SemGuarda(e, l) == FALSE

\* finally { if (!cancelado) setLoading(false); }
Finally(e, l) == IF ~e.cancelado THEN FALSE ELSE l

\* what the server answers a fetch with: its first n records as they are
Resposta(n) == [k \in 1..n |-> [id |-> k, status |-> servidor[k]]]

\* the header objects of a response
HeadersDaResposta(r) ==
  [k \in DOMAIN r |-> [tipo |-> "header", id |-> r[k].id,
                       status |-> r[k].status]]

\* adaptarHeaderParaAlerta(h) of the list rows: a new alert object
AlertaDaLinha(h) ==
  [tipo |-> "alerta", id |-> h.id, status |-> OuAberta(mapearStatus(h.status))]

\* prevHeaders.map(header => header.alerta_id === alertaId
\*   ? { ...header, status: statusParaAPI } : header):
\* the new list, and the objects it creates, for a heap of n objects
RECURSIVE MapearStatus(_, _, _, _, _)
MapearStatus(prev, hp, alertaId, st, n) ==
  IF prev = <<>> THEN [lista |-> <<>>, novos |-> <<>>]
  ELSE
    LET h == hp[Head(prev)]
        troca == h.id = alertaId
        resto == MapearStatus(Tail(prev), hp, alertaId, st,
                              IF troca THEN n + 1 ELSE n)
    IN IF troca
         THEN [lista |-> <<n + 1>> \o resto.lista,
               novos |-> <<[h EXCEPT !.status = statusParaAPI(st)]>>
                           \o resto.novos]
         ELSE [lista |-> <<Head(prev)>> \o resto.lista, novos |-> resto.novos]

\* what the steps of the page leave alone
foraDaPagina ==
  <<varsLinha, varsNumero, varsAdaptador, varsSelecao, varsDemais>>

\* mount: filters is null and the effect runs for it; the server holds
\* MaxAlertas open alerts
InitPagina ==
  /\ filters = 0
  /\ efeitos = <<NovoEfeito>>
  /\ pagHeaders = <<>>
  /\ err = -1
  /\ loading = TRUE
  /\ origem = -1
  /\ heap = <<>>
  /\ trocas = {}
  /\ servidor = [k \in 1..MaxAlertas |-> <<"A", "b", "e", "r", "t", "a">>]
  /\ avisos = <<>>
  /\ confirmado = [k \in 1..MaxAlertas |-> "nenhum"]
  /\ LinhaParada
  /\ NumeroParado
  /\ AdaptadorParado
  /\ SelecaoParada
  /\ DemaisParados

\* <BarraFiltros onApply={setFilters} />: the effect of the old filters is
\* cleaned up and the effect runs for the new ones
AplicarFiltros ==
  /\ filters < MaxFiltros
  /\ filters' = filters + 1
  /\ efeitos' = Append([efeitos EXCEPT ![filters + 1] = Cancelar(@)],
                       NovoEfeito)
  /\ loading' = TRUE
  /\ err' = -1
  /\ UNCHANGED <<pagHeaders, origem, heap, trocas, servidor, avisos,
                 confirmado>>
  /\ UNCHANGED foraDaPagina

\* the server answers the request of run v with n records
Atender(v, n) ==
  /\ efeitos[v + 1].estado = "esperando"
  /\ efeitos' = [efeitos EXCEPT ![v + 1].estado = "atendido",
                                ![v + 1].resposta = Resposta(n)]
  /\ UNCHANGED <<filters, pagHeaders, err, loading, origem, heap, trocas,
                 servidor, avisos, confirmado>>
  /\ UNCHANGED foraDaPagina

\* the await of run v returns the answer
Resolver(v) ==
  LET e == efeitos[v + 1] IN
  /\ e.estado = "atendido"
  /\ efeitos' = [efeitos EXCEPT ![v + 1].estado = "terminado"]
  /\ IF ~e.cancelado
       THEN /\ heap' = heap \o HeadersDaResposta(e.resposta)
            /\ pagHeaders' = [k \in DOMAIN e.resposta |-> Len(heap) + k]
            /\ origem' = v
       ELSE UNCHANGED <<heap, pagHeaders, origem>>
  /\ loading' = Finally(e, loading)
  /\ UNCHANGED <<filters, err, trocas, servidor, avisos, confirmado>>
  /\ UNCHANGED foraDaPagina

\* the request of run v fails: the server answers it with an error, or
\* does not answer
Rejeitar(v) ==
  LET e == efeitos[v + 1] IN
  /\ e.estado = "esperando"
  /\ efeitos' = [efeitos EXCEPT ![v + 1].estado = "terminado"]
  /\ err' = IF ~e.cancelado THEN v ELSE err
  /\ loading' = Finally(e, loading)
  /\ UNCHANGED <<filters, pagHeaders, origem, heap, trocas, servidor, avisos,
                 confirmado>>
  /\ UNCHANGED foraDaPagina

NumeroDeAlertas == Cardinality({a \in DOMAIN heap : heap[a].tipo = "alerta"})

\* handleTrocarStatus up to its await: row i was rendered with a new alert
\* object item, and the request to set its status to novo is sent
IniciarTroca(i, novo) ==
  LET item == AlertaDaLinha(heap[pagHeaders[i]]) IN
  /\ NumeroDeAlertas < MaxTrocas
  /\ novo # item.status
  /\ heap' = Append(heap, item)
  /\ trocas' = trocas \cup {[item |-> Len(heap) + 1, id |-> item.id,
                             novo |-> novo, estado |-> "enviada"]}
  /\ UNCHANGED <<filters, efeitos, pagHeaders, err, loading, origem,
                 servidor, avisos, confirmado>>
  /\ UNCHANGED foraDaPagina

\* the server applies the status change t and answers it
AplicarNoServidor(t) ==
  /\ t \in trocas
  /\ t.estado = "enviada"
  /\ servidor' = [servidor EXCEPT ![t.id] = statusParaAPI(t.novo)]
  /\ trocas' = (trocas \ {t}) \cup {[t EXCEPT !.estado = "aplicada"]}
  /\ UNCHANGED <<filters, efeitos, pagHeaders, err, loading, origem, heap,
                 avisos, confirmado>>
  /\ UNCHANGED foraDaPagina

\* the request of the status change t fails
RecusarNoServidor(t) ==
  /\ t \in trocas
  /\ t.estado = "enviada"
  /\ trocas' = (trocas \ {t}) \cup {[t EXCEPT !.estado = "recusada"]}
  /\ UNCHANGED <<filters, efeitos, pagHeaders, err, loading, origem, heap,
                 servidor, avisos, confirmado>>
  /\ UNCHANGED foraDaPagina

\* handleTrocarStatus after its await: onUpdateStatus(id, novo), then
\* item.status = novo
ConcluirTroca(t) ==
  LET m == MapearStatus(pagHeaders, heap, t.id, t.novo, Len(heap)) IN
  /\ t \in trocas
  /\ t.estado = "aplicada"
  /\ pagHeaders' = m.lista
  /\ heap' = [(heap \o m.novos) EXCEPT ![t.item].status = t.novo]
  /\ trocas' = trocas \ {t}
  /\ confirmado' = [confirmado EXCEPT ![t.id] = t.novo]
  /\ UNCHANGED <<filters, efeitos, err, loading, origem, servidor, avisos>>
  /\ UNCHANGED foraDaPagina

FalharTroca_SemTry(t) ==
  /\ t \in trocas
  /\ t.estado = "recusada"
  /\ trocas' = trocas \ {t}
  /\ UNCHANGED <<filters, efeitos, pagHeaders, err, loading, origem, heap,
                 servidor, avisos, confirmado>>
  /\ UNCHANGED foraDaPagina

\* handleTrocarStatus when the request fails:
\* catch (err) { console.error(...); alert("Falha ao atualizar status...") }
FalharTroca(t) ==
  /\ t \in trocas
  /\ t.estado = "recusada"
  /\ trocas' = trocas \ {t}
  /\ avisos' = Append(avisos, t.id)
  /\ UNCHANGED <<filters, efeitos, pagHeaders, err, loading, origem, heap,
                 servidor, confirmado>>
  /\ UNCHANGED foraDaPagina

NextPagina ==
  \/ AplicarFiltros
  \/ \E v \in 0..filters, n \in 0..MaxAlertas : Atender(v, n)
  \/ \E v \in 0..filters : Resolver(v)
  \/ \E v \in 0..filters : Rejeitar(v)
  \/ \E i \in DOMAIN pagHeaders, novo \in StatusInternos : IniciarTroca(i, novo)
  \/ \E t \in trocas : AplicarNoServidor(t)
  \/ \E t \in trocas : RecusarNoServidor(t)
  \/ \E t \in trocas : ConcluirTroca(t)
  \/ \E t \in trocas : FalharTroca(t)

SpecPagina == InitPagina /\ [][NextPagina]_vars

\* C19 as stated: after an object has been created no operation of the
\* dashboard, a status change in particular, modifies any of its fields; a
\* status change only replaces the headers list with new records.
C19_Original ==
  [][\A a \in DOMAIN heap : heap'[a] = heap[a]]_vars

\* C20: for any sequence of filter changes and any order in which the
\* fetches complete, the response or error of a superseded fetch is never
\* written to headers or err: whenever a response is written to headers, or
\* an error to err, it is that of the fetch issued for the most recent
\* filters.
C20_SoORecente ==
  [][ /\ origem' # origem => origem' = filters'
      /\ (err' # err /\ err' # -1) => err' = filters' ]_vars

\* two superseded fetches have completed, and headers holds the response to
\* the fetch of the most recent filters
C20_Witness ==
  /\ filters = 2
  /\ \A v \in 0..2 : efeitos[v + 1].estado = "terminado"
  /\ efeitos[1].cancelado /\ efeitos[2].cancelado
  /\ origem = 2
  /\ Len(pagHeaders) >= 1

\* the internal status the list shows for the header object at address a
StatusMostrado(a) == OuAberta(mapearStatus(heap[a].status))

\* C25 as stated: once a status change of alert A to S has succeeded and
\* has been applied to headers, every later headers that contains A shows A
\* with status S until another status change of A succeeds, for every
\* interleaving with the fetches started before it and completed after it.
C25_Original ==
  \A k \in DOMAIN pagHeaders :
    LET h == heap[pagHeaders[k]] IN
    confirmado[h.id] # "nenhum" => StatusMostrado(pagHeaders[k]) = confirmado[h.id]

\* C26: when the status-update request of an alert fails, the dashboard
\* state is unchanged: headers keeps every record and its status
\* (onUpdateStatus is not called), the alert object's status field is not
\* modified, and the failure is reported to the user by the handler.
C26_FalhaSemEfeito ==
  [][\A t \in trocas :
       (t.estado = "recusada" /\ t \notin trocas') =>
         /\ pagHeaders' = pagHeaders
         /\ heap' = heap
         /\ confirmado' = confirmado
         /\ <<filters', efeitos', err', loading', origem'>>
              = <<filters, efeitos, err, loading, origem>>
         /\ avisos' = Append(avisos, t.id)]_vars

\* a status change has failed and was reported: the row's header and the
\* alert object created for the row still show the status they had
C26_Witness ==
  /\ Len(avisos) = 1
  /\ trocas = {}
  /\ \E a \in DOMAIN heap, k \in DOMAIN pagHeaders :
       /\ heap[a].tipo = "alerta"
       /\ heap[pagHeaders[k]].id = heap[a].id
       /\ heap[a].id = avisos[1]
       /\ StatusMostrado(pagHeaders[k]) = heap[a].status
       /\ confirmado[heap[a].id] = "nenhum"

\* C27: loading is true whenever the fetch issued for the most recent
\* filters is still in flight; once that fetch has completed, with data or
\* with an error, loading is false and stays false until the next filter
\* change; a superseded fetch that completes never sets loading to false
\* while the latest fetch is in flight.
C27_Loading ==
  loading <=> efeitos[filters + 1].estado # "terminado"

\* the fetch of the first filters was answered with records and completed
\* after it had been superseded (its records never reached headers), while
\* the fetch of the latest filters is still in flight
C27_Witness ==
  /\ filters >= 1
  /\ efeitos[1].estado = "terminado"
  /\ efeitos[1].cancelado
  /\ Len(efeitos[1].resposta) >= 1
  /\ origem = -1
  /\ efeitos[filters + 1].estado # "terminado"
  /\ loading

\* the latest fetch has completed with an error after a superseded one
C27_WitnessErro ==
  /\ filters >= 1
  /\ efeitos[filters + 1].estado = "terminado"
  /\ err = filters
  /\ ~loading

-----------------------------------------------------------------------------
(* More properties of the timeline (specification Spec)                    *)

Periodos == {"24h", "7d", "30d"}

Contados == {i \in DOMAIN alerts :
               ~ForaDaJanela(parseEmUtc(alerts[i].createdAt), chamada)}

\* Math.floor((t - start) / bucketSize) for alert i, before any clamp
IndiceSemLimite(i) ==
  (parseEmUtc(alerts[i].createdAt).v - chamada.sUtc.v) \div chamada.bucketSize

\* C23: in both modes, for every alert that passes the window test
\* start <= t < end, the index floor((t - start) / width) already lies in
\* 0..n-1, n the number of buckets created: the clamp of explicit mode
\* never changes the index and relative mode never addresses a bucket
\* outside the array.
C23_IndiceDentro ==
  \A i \in Contados :
    /\ 0 <= IndiceSemLimite(i)
    /\ IndiceSemLimite(i) <= Len(dados) - 1

\* an explicit call on daily buckets whose last bucket is a partial one, with
\* an alert counted in that last bucket
C23_Witness ==
  /\ chamada.modo = "explicito"
  /\ chamada.bucketSize = DAY
  /\ JanelaFinita
  /\ (chamada.eUtc.v - chamada.sUtc.v) % DAY # 0
  /\ \E i \in Contados : IndiceSemLimite(i) = Len(dados) - 1

\* a relative call with an alert counted in its last bucket
C23_WitnessRelativa ==
  /\ chamada.modo = "relativo"
  /\ \E i \in Contados : IndiceSemLimite(i) = Len(dados) - 1

-----------------------------------------------------------------------------
(* More properties of the adapter (specification SpecAdaptador)            *)

\* C24 as stated: for each internal status s the label a status update
\* writes for s ("Aberta", "Em Andamento", "Fechada") is mapped back to s,
\* and each label the API type documents as coming from the server
\* ("Aberto", "Fechado", "Em Progresso") is mapped to the corresponding
\* internal status (aberta, fechada, em_progresso), not to the default.
C24_Original ==
  fase = "adaptado" =>
    /\ \A st \in StatusInternos :
         cabecalho.status = statusParaAPI(st) =>
           classes.status = st /\ alerta.status = st
    /\ cabecalho.status = <<"A", "b", "e", "r", "t", "o">> =>
         classes.status = "aberta" /\ alerta.status = "aberta"
    /\ cabecalho.status = <<"F", "e", "c", "h", "a", "d", "o">> =>
         classes.status = "fechada" /\ alerta.status = "fechada"
    /\ cabecalho.status = <<"E", "m", " ", "P", "r", "o", "g", "r", "e", "s", "s", "o">> =>
         classes.status = "em_progresso" /\ alerta.status = "em_progresso"

-----------------------------------------------------------------------------
(* listarCabecalhosAlertas: POST to the filter route, GET of /alerta       *)

\* the timeline, the normalisers, the chart and the page at rest
AntigosParados ==
  /\ LinhaParada
  /\ NumeroParado
  /\ AdaptadorParado
  /\ SelecaoParada
  /\ PaginaParada

varsAntigos == <<varsLinha, varsNumero, varsAdaptador, varsSelecao,
                 varsPagina>>

\* an element of a response array: a record, or null
Item(h) == [nulo |-> FALSE, reg |-> h]
ItemNulo == [nulo |-> TRUE, reg |-> BrutoBase]

\* the elements tried
Itens ==
  {ItemNulo, Item(BrutoBase),
   Item([BrutoBase EXCEPT !.alerta_id = SemRotulo, !.id = <<"b", "2">>])}

\* response bodies: one that is no array, and the arrays of at most
\* MaxAlertas elements
CorpoNaoArray == [array |-> FALSE, itens |-> <<>>]

Corpos ==
  {CorpoNaoArray}
    \cup {[array |-> TRUE, itens |-> is] :
            is \in UNION {[1..n -> Itens] : n \in 0..MaxAlertas}}

\* how a request ended
Respondeu(c) == [ok |-> TRUE, corpo |-> c]
Falhou == [ok |-> FALSE, corpo |-> CorpoNaoArray]

\* function normalizarArray(arr: any[]): normalizarCabecalho(null) reads a
\* property of null and throws TypeError
normalizarArray(c) ==
  IF ~c.array THEN [lancou |-> FALSE, valor |-> <<>>]
  ELSE IF \E i \in DOMAIN c.itens : c.itens[i].nulo
    THEN [lancou |-> TRUE, valor |-> <<>>]
  ELSE [lancou |-> FALSE,
        valor |-> [i \in DOMAIN c.itens |-> normalizarCabecalho(c.itens[i].reg)]]

Resolvida(v) == [estado |-> "resolvida", valor |-> v, erro |-> ""]
Rejeitada(e) == [estado |-> "rejeitada", valor |-> <<>>, erro |-> e]

foraDoListar == <<varsAntigos, varsPrefs, varsAuth, varsModal>>

InitListar ==
  /\ chamadasHttp = <<>>
  /\ respostasHttp = <<>>
  /\ faseListar = "inicio"
  /\ saidaListar = NaoResolvida
  /\ AntigosParados
  /\ PrefsParado
  /\ AuthParado
  /\ ModalParado

\* listarCabecalhosAlertas() up to its first await
ChamarListar ==
  /\ faseListar = "inicio"
  /\ chamadasHttp' = <<"POST filtrar">>
  /\ faseListar' = "aguardaPost"
  /\ UNCHANGED <<respostasHttp, saidaListar>>
  /\ UNCHANGED foraDoListar

\* the catch block up to its await
Recorrer ==
  /\ chamadasHttp' = Append(chamadasHttp, "GET /alerta")
  /\ faseListar' = "aguardaGet"
  /\ UNCHANGED saidaListar

\* the POST is answered with body c: return normalizarArray(data), inside
\* the try
PostRespondeu(c) ==
  /\ faseListar = "aguardaPost"
  /\ respostasHttp' = Append(respostasHttp, Respondeu(c))
  /\ IF normalizarArray(c).lancou
       THEN Recorrer
       ELSE /\ saidaListar' = Resolvida(normalizarArray(c).valor)
            /\ faseListar' = "fim"
            /\ UNCHANGED chamadasHttp
  /\ UNCHANGED foraDoListar

\* the POST fails
PostFalhou ==
  /\ faseListar = "aguardaPost"
  /\ respostasHttp' = Append(respostasHttp, Falhou)
  /\ Recorrer
  /\ UNCHANGED foraDoListar

\* the GET is answered with body c: return normalizarArray(data), inside
\* the catch
GetRespondeu(c) ==
  /\ faseListar = "aguardaGet"
  /\ respostasHttp' = Append(respostasHttp, Respondeu(c))
  /\ saidaListar' = IF normalizarArray(c).lancou THEN Rejeitada("TypeError")
                    ELSE Resolvida(normalizarArray(c).valor)
  /\ faseListar' = "fim"
  /\ UNCHANGED chamadasHttp
  /\ UNCHANGED foraDoListar

\* the GET fails
GetFalhou ==
  /\ faseListar = "aguardaGet"
  /\ respostasHttp' = Append(respostasHttp, Falhou)
  /\ saidaListar' = Rejeitada("http")
  /\ faseListar' = "fim"
  /\ UNCHANGED chamadasHttp
  /\ UNCHANGED foraDoListar

NextListar ==
  \/ ChamarListar
  \/ \E c \in Corpos : PostRespondeu(c)
  \/ PostFalhou
  \/ \E c \in Corpos : GetRespondeu(c)
  \/ GetFalhou

SpecListar == InitListar /\ [][NextListar]_vars

\* the list the claim expects for a response body: the empty list for a
\* body that is no array, the normalised records otherwise
ListaEsperada(c) ==
  IF ~c.array THEN <<>>
  ELSE [i \in DOMAIN c.itens |-> normalizarCabecalho(c.itens[i].reg)]

\* C22 as stated: listarCabecalhosAlertas first posts to the filter
\* endpoint; it falls back to the GET of /alerta if and only if that call
\* fails; it rejects only when both calls fail; on success it returns the
\* normalised array of whichever call succeeded, a body that is no array
\* giving the empty list.
C22_Original ==
  /\ Len(chamadasHttp) >= 1 => chamadasHttp[1] = "POST filtrar"
  /\ Len(chamadasHttp) >= 2 <=>
       (Len(respostasHttp) >= 1 /\ ~respostasHttp[1].ok)
  /\ Len(chamadasHttp) >= 2 => chamadasHttp[2] = "GET /alerta"
  /\ saidaListar.estado = "rejeitada" =>
       /\ Len(respostasHttp) = 2
       /\ ~respostasHttp[1].ok
       /\ ~respostasHttp[2].ok
  /\ (faseListar = "fim" /\ \E k \in DOMAIN respostasHttp : respostasHttp[k].ok) =>
       /\ saidaListar.estado = "resolvida"
       /\ saidaListar.valor =
            ListaEsperada(respostasHttp[Len(respostasHttp)].corpo)

-----------------------------------------------------------------------------
(* PrefsProvider: the preferences, their copy in localStorage and the      *)
(* effects that write it.  React runs the pending effects of a render      *)
(* before it handles the next event, so a call is made only when no effect *)
(* waits.  Writes to localStorage are taken to succeed.                    *)

\* the time zones a caller may set
FusosPrefs == Fusos \cup {"Europe/Lisbon"}

Guardado(p) ==
  [presente |-> TRUE, darkMode |-> p.darkMode, timezone |-> p.timezone]

\* what localStorage may hold when the provider mounts
ArmazenadosIniciais ==
  {NadaArmazenado}
    \cup {Guardado([darkMode |-> d, timezone |-> tz]) :
            d \in BOOLEAN, tz \in FusosPrefs}

\* const saved = loadPrefs(); const initial = saved || {...}
PrefsIniciais(a) ==
  IF a.presente THEN [darkMode |-> a.darkMode, timezone |-> a.timezone]
  ELSE PrefsPadrao

Mudou_SoDarkMode(antes, depois) == antes.darkMode # depois.darkMode

\* a set state that differs from the current one renders again, and the
\* effect on [darkMode, timezone] runs after that render
Mudou(antes, depois) == antes # depois

\* formatarDataLocal: localStorage.getItem("prefs.v1")
\*   ? JSON.parse(...).timezone : "America/Sao_Paulo"
FusoLido == IF armazenado.presente THEN armazenado.timezone
            ELSE "America/Sao_Paulo"

foraDasPrefs == <<varsAntigos, varsListar, varsAuth, varsModal>>

\* mount: the state is read from storage, the effects wait to run
InitPrefs ==
  /\ armazenado \in ArmazenadosIniciais
  /\ prefs = PrefsIniciais(armazenado)
  /\ tema = ""
  /\ efeitoPendente = TRUE
  /\ ultimaOp = "montar"
  /\ formatado = NaoFormatado
  /\ AntigosParados
  /\ ListarParado
  /\ AuthParado
  /\ ModalParado

\* the two effects: data-theme on <html>, savePrefs({ darkMode, timezone })
RodarEfeitos ==
  /\ efeitoPendente
  /\ tema' = IF prefs.darkMode THEN "dark" ELSE ""
  /\ armazenado' = Guardado(prefs)
  /\ efeitoPendente' = FALSE
  /\ UNCHANGED <<prefs, ultimaOp, formatado>>
  /\ UNCHANGED foraDasPrefs

ChamarSetDarkMode(v) ==
  /\ ~efeitoPendente
  /\ prefs' = [prefs EXCEPT !.darkMode = v]
  /\ efeitoPendente' = Mudou(prefs, prefs')
  /\ ultimaOp' = "setDarkMode"
  /\ UNCHANGED <<armazenado, tema, formatado>>
  /\ UNCHANGED foraDasPrefs

ChamarSetTimezone(tz) ==
  /\ ~efeitoPendente
  /\ prefs' = [prefs EXCEPT !.timezone = tz]
  /\ efeitoPendente' = Mudou(prefs, prefs')
  /\ ultimaOp' = "setTimezone"
  /\ UNCHANGED <<armazenado, tema, formatado>>
  /\ UNCHANGED foraDasPrefs

\* setDarkMode(false); setTimezone("America/Sao_Paulo"); clearPrefs();
ResetPrefs ==
  /\ ~efeitoPendente
  /\ prefs' = PrefsPadrao
  /\ armazenado' = NadaArmazenado
  /\ efeitoPendente' = Mudou(prefs, prefs')
  /\ ultimaOp' = "resetPrefs"
  /\ UNCHANGED <<tema, formatado>>
  /\ UNCHANGED foraDasPrefs

\* formatarDataLocal(iso) is called, in a render or in a handler
Formatar ==
  /\ formatado' = [feito |-> TRUE, fuso |-> FusoLido,
                   contexto |-> prefs.timezone,
                   efeitosRodaram |-> ~efeitoPendente]
  /\ UNCHANGED <<prefs, armazenado, tema, efeitoPendente, ultimaOp>>
  /\ UNCHANGED foraDasPrefs

NextPrefs ==
  \/ Formatar
  \/ RodarEfeitos
  \/ \E v \in BOOLEAN : ChamarSetDarkMode(v)
  \/ \E tz \in FusosPrefs : ChamarSetTimezone(tz)
  \/ ResetPrefs

SpecPrefs == InitPrefs /\ [][NextPrefs]_vars

C28_WitnessAusente ==
  /\ ultimaOp = "resetPrefs"
  /\ ~efeitoPendente
  /\ ~armazenado.presente

\* a time zone was set and the effects have run
C28_WitnessFuso ==
  /\ ultimaOp = "setTimezone"
  /\ ~efeitoPendente
  /\ prefs.timezone = "Europe/Lisbon"
  /\ armazenado.presente
  /\ formatado.feito
  /\ formatado.efeitosRodaram
  /\ formatado.fuso = "Europe/Lisbon"

-----------------------------------------------------------------------------
(* Authentication: the tokens in localStorage, PrivateRoute, getJwt,       *)
(* loginWithCognito, refreshAccessToken and signOut.  A token is what      *)
(* parseJwt makes of it: whether it parses, and its exp claim.             *)

Relogio0 == 1000000     \* Date.now() at the start, in ms
Validade == 3600        \* lifetime in seconds of the tokens Cognito issues

TokenCom(e) == [presente |-> TRUE, parse |-> TRUE, exp |-> e]
ExpNumero(n) == [tipo |-> "numero", v |-> n]
ExpAusente == [tipo |-> "ausente", v |-> 0]
\* an exp claim that is a text and no number, as in {"exp": "never"}
ExpTexto == [tipo |-> "texto", v |-> 0]

\* a stored value that does not parse as a JWT
TokenIlegivel ==
  [presente |-> TRUE, parse |-> FALSE, exp |-> ExpAusente]

\* what localStorage may hold for accessToken at the start
TokensIniciais ==
  {SemToken, TokenIlegivel, TokenCom(ExpAusente), TokenCom(ExpTexto),
   TokenCom(ExpNumero(0)),
   TokenCom(ExpNumero(Relogio0 \div 1000 + 60)),
   TokenCom(ExpNumero(Relogio0 \div 1000 + 61)),
   TokenCom(ExpNumero(Relogio0 \div 1000 + Validade))}

\* session.getAccessToken().getJwtToken() of a session obtained at ms
TokenNovo(ms) == TokenCom(ExpNumero(ms \div 1000 + Validade))

\* function isExpired(token, skewSeconds = 60)
isExpired(t, ms) ==
  LET now == ms \div 1000 IN
  IF ~t.presente \/ ~t.parse THEN TRUE             \* parseJwt gives null
  ELSE IF t.exp.tipo = "ausente" THEN TRUE         \* !p?.exp
  ELSE IF t.exp.tipo = "numero" /\ t.exp.v = 0 THEN TRUE
  ELSE IF t.exp.tipo = "numero" THEN t.exp.v <= now + 60
  ELSE FALSE               \* "never" <= n compares NaN with n: false

\* if (!t || isExpired(t)) return <Navigate to="/login" replace />
PrivateRoute(t, ms) ==
  IF ~t.presente \/ isExpired(t, ms) THEN "login" ELSE "pagina"

\* localStorage.getItem("idToken") || localStorage.getItem("accessToken") || null
getJwt == IF idToken.presente THEN idToken ELSE accessToken

foraDaAuth == <<varsAntigos, varsListar, varsPrefs, varsModal>>

InitAuth ==
  /\ accessToken \in TokensIniciais
  /\ idToken \in {SemToken, accessToken}
  /\ refreshToken = idToken
  /\ relogio = Relogio0
  /\ usuarioAtual = idToken.presente
  /\ operacoes = {}
  /\ iniciadas = 0
  /\ deslogado = FALSE
  /\ visita = SemVisita
  /\ jwt = SemLeitura
  /\ AntigosParados
  /\ ListarParado
  /\ PrefsParado
  /\ ModalParado

\* half a second passes
PassarTempo ==
  /\ relogio < Relogio0 + MaxMeiosSegundos * 500
  /\ relogio' = relogio + 500
  /\ UNCHANGED <<idToken, accessToken, refreshToken, usuarioAtual, operacoes,
                 iniciadas, deslogado, visita, jwt>>
  /\ UNCHANGED foraDaAuth

\* /dashboard or /config is rendered
Visitar ==
  /\ visita' = [feita |-> TRUE,
                resultado |-> PrivateRoute(accessToken, relogio),
                token |-> accessToken, relogio |-> relogio,
                deslogado |-> deslogado]
  /\ UNCHANGED <<idToken, accessToken, refreshToken, relogio, usuarioAtual,
                 operacoes, iniciadas, deslogado, jwt>>
  /\ UNCHANGED foraDaAuth

\* getJwt() is called
LerJwt ==
  /\ jwt' = [feita |-> TRUE, valor |-> getJwt, deslogado |-> deslogado]
  /\ UNCHANGED <<idToken, accessToken, refreshToken, relogio, usuarioAtual,
                 operacoes, iniciadas, deslogado, visita>>
  /\ UNCHANGED foraDaAuth

\* loginWithCognito(...) up to user.authenticateUser(auth, {...})
IniciarLogin ==
  /\ iniciadas < MaxOperacoes
  /\ iniciadas' = iniciadas + 1
  /\ operacoes' = operacoes \cup {[tipo |-> "login", n |-> iniciadas + 1]}
  /\ UNCHANGED <<idToken, accessToken, refreshToken, relogio, usuarioAtual,
                 deslogado, visita, jwt>>
  /\ UNCHANGED foraDaAuth

\* refreshAccessToken() up to current.refreshSession(rt, ...): it goes on
\* only when there is a current user with a session
IniciarRefresh ==
  /\ iniciadas < MaxOperacoes
  /\ usuarioAtual
  /\ iniciadas' = iniciadas + 1
  /\ operacoes' = operacoes \cup {[tipo |-> "refresh", n |-> iniciadas + 1]}
  /\ UNCHANGED <<idToken, accessToken, refreshToken, relogio, usuarioAtual,
                 deslogado, visita, jwt>>
  /\ UNCHANGED foraDaAuth

\* function persistTokens(session)
persistTokens ==
  /\ idToken' = TokenNovo(relogio)
  /\ accessToken' = TokenNovo(relogio)
  /\ refreshToken' = TokenNovo(relogio)

\* onSuccess: (session) => { persistTokens(session); resolve(); }
LoginSucesso(o) ==
  /\ o \in operacoes
  /\ o.tipo = "login"
  /\ operacoes' = operacoes \ {o}
  /\ persistTokens
  /\ usuarioAtual' = TRUE
  /\ deslogado' = FALSE
  /\ UNCHANGED <<relogio, iniciadas, visita, jwt>>
  /\ UNCHANGED foraDaAuth

\* refreshSession callback without error: persistTokens(newSession)
RefreshSucesso(o) ==
  /\ o \in operacoes
  /\ o.tipo = "refresh"
  /\ operacoes' = operacoes \ {o}
  /\ persistTokens
  /\ UNCHANGED <<relogio, usuarioAtual, iniciadas, deslogado, visita, jwt>>
  /\ UNCHANGED foraDaAuth

\* onFailure / newPasswordRequired: reject; refreshSession error: resolve(null)
OperacaoFalha(o) ==
  /\ o \in operacoes
  /\ operacoes' = operacoes \ {o}
  /\ UNCHANGED <<idToken, accessToken, refreshToken, relogio, usuarioAtual,
                 iniciadas, deslogado, visita, jwt>>
  /\ UNCHANGED foraDaAuth

\* export function signOut()
SignOut ==
  /\ usuarioAtual' = FALSE
  /\ idToken' = SemToken
  /\ accessToken' = SemToken
  /\ refreshToken' = SemToken
  /\ deslogado' = TRUE
  /\ UNCHANGED <<relogio, operacoes, iniciadas, visita, jwt>>
  /\ UNCHANGED foraDaAuth

NextAuth ==
  \/ PassarTempo
  \/ Visitar
  \/ LerJwt
  \/ IniciarLogin
  \/ IniciarRefresh
  \/ \E o \in operacoes : LoginSucesso(o)
  \/ \E o \in operacoes : RefreshSucesso(o)
  \/ \E o \in operacoes : OperacaoFalha(o)
  \/ SignOut

SpecAuth == InitAuth /\ [][NextAuth]_vars

\* the token parses as a JWT whose exp claim is a number strictly greater
\* than the instant ms plus 60 seconds
TokenValido(t, ms) ==
  /\ t.presente
  /\ t.parse
  /\ t.exp.tipo = "numero"
  /\ t.exp.v * 1000 > ms + 60000

\* C29 as stated: a protected route renders its page only when storage
\* holds an accessToken that parses as a JWT whose exp is strictly greater
\* than now + 60 seconds; a missing, unparsable, exp-less or expiring token
\* redirects to /login; and after signOut no protected route renders and
\* getJwt returns null until a later login succeeds.
C29_Original ==
  /\ visita.feita =>
       /\ visita.resultado = "pagina" =>
            TokenValido(visita.token, visita.relogio) /\ ~visita.deslogado
       /\ ~TokenValido(visita.token, visita.relogio) =>
            visita.resultado = "login"
  /\ (jwt.feita /\ jwt.deslogado) => ~jwt.valor.presente

-----------------------------------------------------------------------------
(* The feedback modal: ModalFeedback and the page's abrirModalFeedback,    *)
(* fecharModalFeedback and enviarFeedback.  ModalFeedback stays mounted    *)
(* while it is closed, so its state outlives a close.  The overlay covers  *)
(* the page, so a row's report button is clicked only with the modal       *)
(* closed.                                                                 *)

\* the alerts listed
AlertasListados == 1..MaxAlertas

foraDoModal == <<varsAntigos, varsListar, varsPrefs, varsAuth>>

InitModal ==
  /\ modalAberto = FALSE
  /\ alertaModal = 0
  /\ textoFeedback = FALSE
  /\ isEnviando = FALSE
  /\ erroModal = FALSE
  /\ envios = {}
  /\ iniciados = 0
  /\ enviados = {}
  /\ marcados = {}
  /\ ultimaAcao = "montar"
  /\ AntigosParados
  /\ ListarParado
  /\ PrefsParado
  /\ AuthParado

\* const fecharModalFeedback = () => { ... }
fecharModalFeedback ==
  /\ modalAberto' = FALSE
  /\ alertaModal' = 0

\* the report button of row a (disabled={feedbackEnviado}):
\* abrirModalFeedback(item), then the effect on [isOpen] clears the form
AbrirModal(a) ==
  /\ ~modalAberto
  /\ a \notin enviados
  /\ modalAberto' = TRUE
  /\ alertaModal' = a
  /\ textoFeedback' = FALSE
  /\ erroModal' = FALSE
  /\ ultimaAcao' = "abrir"
  /\ UNCHANGED <<isEnviando, envios, iniciados, enviados, marcados>>
  /\ UNCHANGED foraDoModal

\* onChange of the textarea (disabled={isEnviando})
Digitar(naoVazio) ==
  /\ modalAberto
  /\ ~isEnviando
  /\ textoFeedback' = naoVazio
  /\ ultimaAcao' = "digitar"
  /\ UNCHANGED <<modalAberto, alertaModal, isEnviando, erroModal, envios,
                 iniciados, enviados, marcados>>
  /\ UNCHANGED foraDoModal

\* the close button and the Cancel button: onClick={onClose},
\* disabled={isEnviando}
ClicarBotao(qual) ==
  /\ modalAberto
  /\ ~isEnviando
  /\ fecharModalFeedback
  /\ ultimaAcao' = qual
  /\ UNCHANGED <<textoFeedback, isEnviando, erroModal, envios, iniciados,
                 enviados, marcados>>
  /\ UNCHANGED foraDoModal

\* handleKeyDown: if (e.key === "Escape" && isOpen) onClose()
TeclarEscape ==
  /\ modalAberto
  /\ fecharModalFeedback
  /\ ultimaAcao' = "escape"
  /\ UNCHANGED <<textoFeedback, isEnviando, erroModal, envios, iniciados,
                 enviados, marcados>>
  /\ UNCHANGED foraDoModal

\* handleOverlayClick: if (e.target === e.currentTarget) onClose()
ClicarOverlay ==
  /\ modalAberto
  /\ fecharModalFeedback
  /\ ultimaAcao' = "overlay"
  /\ UNCHANGED <<textoFeedback, isEnviando, erroModal, envios, iniciados,
                 enviados, marcados>>
  /\ UNCHANGED foraDoModal

\* the submit button (disabled={isEnviando || !feedback.trim()}):
\* handleEnviar up to its await
ClicarEnviar ==
  /\ modalAberto
  /\ ~isEnviando
  /\ textoFeedback
  /\ iniciados < MaxEnvios
  /\ isEnviando' = TRUE
  /\ erroModal' = FALSE
  /\ envios' = envios \cup {[alerta |-> alertaModal, n |-> iniciados + 1]}
  /\ iniciados' = iniciados + 1
  /\ ultimaAcao' = "enviar"
  /\ UNCHANGED <<modalAberto, alertaModal, textoFeedback, enviados, marcados>>
  /\ UNCHANGED foraDoModal

\* enviarFeedback resolves (the item is stored, the event marks the row, the
\* header gets feedback_enviado); handleEnviar: onClose(); finally
EnvioSucesso(e) ==
  /\ e \in envios
  /\ envios' = envios \ {e}
  /\ enviados' = enviados \cup {e.alerta}
  /\ marcados' = marcados \cup {e.alerta}
  /\ fecharModalFeedback
  /\ isEnviando' = FALSE
  /\ ultimaAcao' = "sucesso"
  /\ UNCHANGED <<textoFeedback, erroModal, iniciados>>
  /\ UNCHANGED foraDoModal

\* enviarFeedback rejects; handleEnviar: catch { setErro(...) }; finally
EnvioFalha(e) ==
  /\ e \in envios
  /\ envios' = envios \ {e}
  /\ erroModal' = TRUE
  /\ isEnviando' = FALSE
  /\ ultimaAcao' = "falha"
  /\ UNCHANGED <<modalAberto, alertaModal, textoFeedback, iniciados, enviados,
                 marcados>>
  /\ UNCHANGED foraDoModal

NextModal ==
  \/ \E a \in AlertasListados : AbrirModal(a)
  \/ \E b \in BOOLEAN : Digitar(b)
  \/ \E q \in {"fechar", "cancelar"} : ClicarBotao(q)
  \/ TeclarEscape
  \/ ClicarOverlay
  \/ ClicarEnviar
  \/ \E e \in envios : EnvioSucesso(e)
  \/ \E e \in envios : EnvioFalha(e)

SpecModal == InitModal /\ [][NextModal]_vars

\* C30 as stated: while a submission is in flight (isEnviando) no user
\* action (close button, Cancel, Escape, overlay click) closes the modal
\* and no second submission is started, and no submission is started for an
\* alert whose feedback was sent (its report button is disabled).
C30_Original ==
  [][ /\ (isEnviando /\ modalAberto /\ ~modalAberto') =>
           ultimaAcao' \notin {"fechar", "cancelar", "escape", "overlay"}
      /\ Cardinality(envios') <= 1
      /\ \A e \in envios' \ envios : e.alerta \notin enviados ]_vars
====
